---- MODULE Spec2Model ----
(***************************************************************************)
(* Support-ticket triage agent: the rule engine (core/triage_logic.py),    *)
(* the orchestrator (core/agent.py) and the models they validate against.  *)
(* Enumerations are kept as their wire strings; ticket text is kept as     *)
(* real strings and matched by substring, as the code does.                *)
(***************************************************************************)
EXTENDS Integers, Sequences, FiniteSets, TLC

VARIABLES
    api_key_set,      \* Config.is_api_key_set() of the agent's config
    client_injected,  \* a client object was passed to TriageAgent.__init__
    pc,               \* position of the current triage() call
    ticket,           \* the SupportTicket being triaged
    iteration,        \* _llm_triage: iteration
    tool_calls_made,  \* _llm_triage: tool_calls_made
    messages,         \* _llm_triage: messages (the conversation)
    requests,         \* completion requests sent during this triage() call
    pending,          \* _llm_triage: response (the last completion received)
    invoked,          \* every tool invocation made during this triage() call
    path,             \* which code path produced the outcome
    candidate,        \* the output handed to _apply_business_rules
    result,           \* what triage() returned
    rin,              \* rule-engine harness: the inputs drawn
    rout,             \* rule-engine harness: the value computed
    _tools,           \* ToolRegistry._tools: the dict, as its items in key order
    reg_out,          \* ToolRegistry: the last call made and how it ended
    run_pc,           \* runner.main: position of the batch run
    input_file,       \* runner.main: the JSON array in the input file
    verbose,          \* runner.main: the verbose flag
    tickets,          \* runner.main: tickets (the loaded list)
    results,          \* process_tickets: results
    triaged,          \* positions of the tickets agent.triage was called with
    logged,           \* positions of the tickets logger.error was called for
    chat_pc,          \* chat.main: at the prompt, ended, or left by an exception
    _ticket_counter,  \* chat._ticket_counter
    commands,         \* chat.main: commands read so far
    chat_last,        \* chat.main: the last command, its input and what it did
    MOCK_POSTED_MESSAGES,    \* tools/slack.py: MOCK_POSTED_MESSAGES
    MOCK_CREATED_ISSUES,     \* tools/jira.py: MOCK_CREATED_ISSUES
    _issue_counter,          \* tools/jira.py: _issue_counter
    MOCK_CREATED_INCIDENTS,  \* tools/pagerduty.py: MOCK_CREATED_INCIDENTS
    _incident_counter,       \* tools/pagerduty.py: _incident_counter
    store_out                \* the last creation tool run, its input and its output

\* ToolRegistry
registryVars == <<_tools, reg_out>>

\* runner.py
runnerVars == <<run_pc, input_file, verbose, tickets, results, triaged, logged>>

\* chat.py
chatVars == <<chat_pc, _ticket_counter, commands, chat_last>>

\* The module-level stores of the creation tools.
storeVars == <<MOCK_POSTED_MESSAGES, MOCK_CREATED_ISSUES, _issue_counter, MOCK_CREATED_INCIDENTS, _incident_counter, store_out>>

\* Everything outside the agent and the rule-engine harness.
harnessVars == <<registryVars, runnerVars, chatVars, storeVars>>

vars == <<api_key_set, client_injected, pc, ticket, iteration, tool_calls_made,
          messages, requests, pending, invoked, path, candidate, result, rin, rout,
          harnessVars>>

agentVars == <<api_key_set, client_injected, pc, ticket, iteration, tool_calls_made,
               messages, requests, pending, invoked, path, candidate, result>>

\* Everything but the registry; but the runner; but the chat; but the stores.
exceptRegistry == <<agentVars, rin, rout, runnerVars, chatVars, storeVars>>
exceptRunner   == <<agentVars, rin, rout, registryVars, chatVars, storeVars>>
exceptChat     == <<agentVars, rin, rout, registryVars, runnerVars, storeVars>>
exceptStores   == <<agentVars, rin, rout, registryVars, runnerVars, chatVars>>

(***************************************************************************)
(* Strings                                                                 *)
(***************************************************************************)

\* str.lower() on one character (ASCII letters).
LowerChar(c) ==
    CASE c = "A" -> "a" [] c = "B" -> "b" [] c = "C" -> "c" [] c = "D" -> "d"
      [] c = "E" -> "e" [] c = "F" -> "f" [] c = "G" -> "g" [] c = "H" -> "h"
      [] c = "I" -> "i" [] c = "J" -> "j" [] c = "K" -> "k" [] c = "L" -> "l"
      [] c = "M" -> "m" [] c = "N" -> "n" [] c = "O" -> "o" [] c = "P" -> "p"
      [] c = "Q" -> "q" [] c = "R" -> "r" [] c = "S" -> "s" [] c = "T" -> "t"
      [] c = "U" -> "u" [] c = "V" -> "v" [] c = "W" -> "w" [] c = "X" -> "x"
      [] c = "Y" -> "y" [] c = "Z" -> "z" [] OTHER -> c

RECURSIVE Lower(_)
\* str.lower()
Lower(s) ==
    IF Len(s) = 0 THEN ""
    ELSE LowerChar(SubSeq(s, 1, 1)) \o Lower(SubSeq(s, 2, Len(s)))

\* Python's `kw in text` on strings: substring containment.
Contains(text, kw) ==
    \E i \in 1..(Len(text) - Len(kw) + 1) : SubSeq(text, i, i + Len(kw) - 1) = kw

\* any(kw in text for kw in kws)
AnyIn(kws, text) == \E kw \in kws : Contains(text, kw)

IsSpace(c) == c \in {" ", "\t", "\n", "\r"}

RECURSIVE SplitFrom(_, _, _)
\* str.split() with no separator: maximal runs of non-whitespace, in order.
\* cur is the word being read, s the unread rest, the words read so far lead.
SplitFrom(s, cur, acc) ==
    IF Len(s) = 0
    THEN IF Len(cur) = 0 THEN acc ELSE Append(acc, cur)
    ELSE LET c    == SubSeq(s, 1, 1)
             rest == SubSeq(s, 2, Len(s))
         IN  IF IsSpace(c)
             THEN SplitFrom(rest, "", IF Len(cur) = 0 THEN acc ELSE Append(acc, cur))
             ELSE SplitFrom(rest, cur \o c, acc)

Split(s) == SplitFrom(s, "", <<>>)

RECURSIVE Join(_)
\* " ".join(words)
Join(words) ==
    IF Len(words) = 0 THEN ""
    ELSE IF Len(words) = 1 THEN words[1]
    ELSE words[1] \o " " \o Join(Tail(words))

\* words[:n]
Take(words, n) == SubSeq(words, 1, IF Len(words) < n THEN Len(words) ELSE n)

\* x in list
InSeq(x, s) == \E i \in 1..Len(s) : s[i] = x

(***************************************************************************)
(* models/triage_output.py: the enumerations, by wire value                *)
(***************************************************************************)

UrgencyLevel      == {"critical", "high", "medium", "low"}
IssueType         == {"billing", "outage", "bug", "feature_request", "account", "other"}
CustomerSentiment == {"very_negative", "negative", "neutral", "positive", "very_positive"}
RiskSignal        == {"churn_risk", "charge_dispute", "legal_threat", "social_media_threat",
                      "escalation_history", "high_value_account", "compliance_issue"}
RecommendedAction == {"auto_respond", "route_to_specialist", "escalate_to_human"}
SpecialistQueue   == {"billing", "infra", "enterprise_success", "tier_2", "security", "none"}

\* Python's None
None == "None"

(***************************************************************************)
(* models/ticket.py                                                        *)
(***************************************************************************)

\* SupportTicket.get_full_text
get_full_text(t) == t.subject \o "\n\n" \o t.body

\* SupportTicket.is_enterprise
is_enterprise(t) == Lower(t.customer_tier) = "enterprise"

(***************************************************************************)
(* core/triage_logic.py                                                    *)
(***************************************************************************)

CRITICAL_KEYWORDS ==
    {"production down", "system down", "completely down",
     "security breach", "data leak", "data loss",
     "all users affected", "cannot access",
     "losing money", "losing customers", "urgent",
     "emergency", "critical", "asap", "immediately"}

CHURN_KEYWORDS ==
    {"cancel", "canceling", "cancellation",
     "switch provider", "switching", "competitor",
     "leaving", "frustrated", "disappointed",
     "not worth", "waste of money", "refund"}

LEGAL_KEYWORDS ==
    {"lawyer", "attorney", "legal action",
     "lawsuit", "sue", "court",
     "dispute", "chargeback", "fraud"}

SOCIAL_MEDIA_KEYWORDS ==
    {"twitter", "tweet", "post about",
     "tell everyone", "review", "public",
     "social media", "linkedin", "facebook"}

outage_indicators == {"down", "outage", "unavailable", "503", "500"}

dispute_keywords == {"chargeback", "dispute", "unauthorized charge", "fraud"}

\* calculate_urgency_override without its first rule (enterprise + outage).
calculate_urgency_override_no_outage_rule(t, llm_urgency) ==
    LET text == Lower(get_full_text(t))
    IN  IF AnyIn(CRITICAL_KEYWORDS, text) /\ llm_urgency \in {"low", "medium"} THEN "high"
        ELSE IF is_enterprise(t) /\ llm_urgency = "low" THEN "medium"
        ELSE None

\* calculate_urgency_override with the enterprise-low rule tried before the
\* Critical-keyword rule.
calculate_urgency_override_enterprise_low_first(t, llm_urgency) ==
    LET text == Lower(get_full_text(t))
    IN  IF is_enterprise(t) /\ AnyIn(outage_indicators, text) THEN "critical"
        ELSE IF is_enterprise(t) /\ llm_urgency = "low" THEN "medium"
        ELSE IF AnyIn(CRITICAL_KEYWORDS, text) /\ llm_urgency \in {"low", "medium"} THEN "high"
        ELSE None

\* calculate_urgency_override whose Critical-keyword rule does not look at
\* the incoming urgency.
calculate_urgency_override_keyword_always_high(t, llm_urgency) ==
    LET text == Lower(get_full_text(t))
    IN  IF is_enterprise(t) /\ AnyIn(outage_indicators, text) THEN "critical"
        ELSE IF AnyIn(CRITICAL_KEYWORDS, text) THEN "high"
        ELSE IF is_enterprise(t) /\ llm_urgency = "low" THEN "medium"
        ELSE None

\* calculate_urgency_override whose enterprise rule moves low and medium one
\* level up.
calculate_urgency_override_enterprise_step_up(t, llm_urgency) ==
    LET text == Lower(get_full_text(t))
    IN  IF is_enterprise(t) /\ AnyIn(outage_indicators, text) THEN "critical"
        ELSE IF AnyIn(CRITICAL_KEYWORDS, text) /\ llm_urgency \in {"low", "medium"} THEN "high"
        ELSE IF is_enterprise(t) /\ llm_urgency = "low" THEN "medium"
        ELSE IF is_enterprise(t) /\ llm_urgency = "medium" THEN "high"
        ELSE None

\* TriageLogic.calculate_urgency_override: the override, or None.
calculate_urgency_override(t, llm_urgency) ==
    LET text == Lower(get_full_text(t))
    IN  IF is_enterprise(t) /\ AnyIn(outage_indicators, text) THEN "critical"
        ELSE IF AnyIn(CRITICAL_KEYWORDS, text) /\ llm_urgency \in {"low", "medium"} THEN "high"
        ELSE IF is_enterprise(t) /\ llm_urgency = "low" THEN "medium"
        ELSE None

\* detect_risk_signals without its legal-threat check.
detect_risk_signals_without_legal(t) ==
    LET text == Lower(get_full_text(t))
    IN  (IF AnyIn(CHURN_KEYWORDS, text) THEN <<"churn_risk">> ELSE <<>>)
        \o (IF AnyIn(SOCIAL_MEDIA_KEYWORDS, text) THEN <<"social_media_threat">> ELSE <<>>)
        \o (IF AnyIn(dispute_keywords, text) THEN <<"charge_dispute">> ELSE <<>>)
        \o (IF is_enterprise(t) THEN <<"high_value_account">> ELSE <<>>)

\* TriageLogic.detect_risk_signals: the signals in detection order.
detect_risk_signals(t) ==
    LET text == Lower(get_full_text(t))
    IN  (IF AnyIn(CHURN_KEYWORDS, text) THEN <<"churn_risk">> ELSE <<>>)
        \o (IF AnyIn(LEGAL_KEYWORDS, text) THEN <<"legal_threat">> ELSE <<>>)
        \o (IF AnyIn(SOCIAL_MEDIA_KEYWORDS, text) THEN <<"social_media_threat">> ELSE <<>>)
        \o (IF AnyIn(dispute_keywords, text) THEN <<"charge_dispute">> ELSE <<>>)
        \o (IF is_enterprise(t) THEN <<"high_value_account">> ELSE <<>>)

\* TriageLogic.determine_specialist_queue
determine_specialist_queue(issue_type, urgency, t, risk_signals) ==
    IF is_enterprise(t) /\ urgency \in {"critical", "high"} THEN "enterprise_success"
    ELSE IF issue_type = "billing" THEN "billing"
    ELSE IF issue_type = "outage" THEN "infra"
    ELSE IF urgency = "critical" \/ issue_type = "bug" THEN "tier_2"
    ELSE IF InSeq("legal_threat", risk_signals) THEN "enterprise_success"
    ELSE "none"

\* determine_action with the enterprise rule tried before the legal-threat rule.
determine_action_enterprise_first(urgency, sentiment, issue_type, risk_signals, t, has_kb_results) ==
    IF urgency = "critical" THEN "escalate_to_human"
    ELSE IF is_enterprise(t) THEN "route_to_specialist"
    ELSE IF InSeq("legal_threat", risk_signals) THEN "escalate_to_human"
    ELSE IF sentiment = "very_negative" /\ InSeq("churn_risk", risk_signals)
         THEN "escalate_to_human"
    ELSE IF urgency = "high" THEN "route_to_specialist"
    ELSE IF sentiment \in {"very_negative", "negative"} THEN "route_to_specialist"
    ELSE IF issue_type = "feature_request" /\ has_kb_results THEN "auto_respond"
    ELSE IF issue_type = "billing" /\ urgency = "low" /\ has_kb_results THEN "auto_respond"
    ELSE IF urgency = "low" /\ sentiment \in {"positive", "neutral"} /\ has_kb_results
         THEN "auto_respond"
    ELSE "route_to_specialist"

\* determine_action without its rule for simple billing questions.
determine_action_without_billing_rule(urgency, sentiment, issue_type, risk_signals, t, has_kb_results) ==
    IF urgency = "critical" THEN "escalate_to_human"
    ELSE IF InSeq("legal_threat", risk_signals) THEN "escalate_to_human"
    ELSE IF sentiment = "very_negative" /\ InSeq("churn_risk", risk_signals)
         THEN "escalate_to_human"
    ELSE IF is_enterprise(t) THEN "route_to_specialist"
    ELSE IF urgency = "high" THEN "route_to_specialist"
    ELSE IF sentiment \in {"very_negative", "negative"} THEN "route_to_specialist"
    ELSE IF issue_type = "feature_request" /\ has_kb_results THEN "auto_respond"
    ELSE IF urgency = "low" /\ sentiment \in {"positive", "neutral"} /\ has_kb_results
         THEN "auto_respond"
    ELSE "route_to_specialist"

\* TriageLogic.determine_action
determine_action(urgency, sentiment, issue_type, risk_signals, t, has_kb_results) ==
    IF urgency = "critical" THEN "escalate_to_human"
    ELSE IF InSeq("legal_threat", risk_signals) THEN "escalate_to_human"
    ELSE IF sentiment = "very_negative" /\ InSeq("churn_risk", risk_signals)
         THEN "escalate_to_human"
    ELSE IF is_enterprise(t) THEN "route_to_specialist"
    ELSE IF urgency = "high" THEN "route_to_specialist"
    ELSE IF sentiment \in {"very_negative", "negative"} THEN "route_to_specialist"
    ELSE IF issue_type = "feature_request" /\ has_kb_results THEN "auto_respond"
    ELSE IF issue_type = "billing" /\ urgency = "low" /\ has_kb_results THEN "auto_respond"
    ELSE IF urgency = "low" /\ sentiment \in {"positive", "neutral"} /\ has_kb_results
         THEN "auto_respond"
    ELSE "route_to_specialist"

billing_keywords == {"billing", "invoice", "charge", "payment", "subscription", "refund", "price"}
outage_keywords  == {"down", "outage", "unavailable", "503", "500", "not working", "cant access"}
bug_keywords     == {"bug", "error", "broken", "doesn't work", "crash", "issue"}
feature_keywords == {"feature", "request", "suggestion", "would be nice", "add support for", "idea"}
account_keywords == {"account", "login", "password", "access", "permission", "locked"}

\* detect_issue_type_from_keywords looking for the feature keywords first.
detect_issue_type_from_keywords_feature_first(t) ==
    LET text == Lower(get_full_text(t))
    IN  IF AnyIn(feature_keywords, text) THEN "feature_request"
        ELSE IF AnyIn(billing_keywords, text) THEN "billing"
        ELSE IF AnyIn(outage_keywords, text) THEN "outage"
        ELSE IF AnyIn(bug_keywords, text) THEN "bug"
        ELSE IF AnyIn(account_keywords, text) THEN "account"
        ELSE None

\* TriageLogic.detect_issue_type_from_keywords: the type, or None.
detect_issue_type_from_keywords(t) ==
    LET text == Lower(get_full_text(t))
    IN  IF AnyIn(billing_keywords, text) THEN "billing"
        ELSE IF AnyIn(outage_keywords, text) THEN "outage"
        ELSE IF AnyIn(bug_keywords, text) THEN "bug"
        ELSE IF AnyIn(feature_keywords, text) THEN "feature_request"
        ELSE IF AnyIn(account_keywords, text) THEN "account"
        ELSE None

(***************************************************************************)
(* tools/: the registry the agent is built with and the two tools the      *)
(* rule-based path calls directly                                          *)
(***************************************************************************)

\* create_default_tools(include_mcp=True): the names, in registration order.
DefaultToolNames ==
    <<"knowledge_base_search", "customer_history", "region_status",
      "slack_search", "slack_post", "jira_search", "jira_create",
      "pagerduty_incidents", "pagerduty_create">>

\* ToolRegistry.has_tool on the agent's registry
has_tool(tool_name) == InSeq(tool_name, DefaultToolNames)

\* KnowledgeBaseInput: query has min_length=1, max_length=500.
KnowledgeBaseInputValid(query) == Len(query) >= 1 /\ Len(query) <= 500

\* KnowledgeBaseTool._execute with max_results=5 over KNOWLEDGE_BASE_ARTICLES:
\* the ids of the articles scoring above the 0.1 threshold, best first.  The
\* catalogue is 13 long articles; the search is tabulated here for the
\* queries the ticket catalogue below produces (scores computed with
\* _calculate_relevance on the catalogue), and is empty for a query that
\* shares no term with any article.
kb_search(query) ==
    CASE query = "site down"        -> <<"KB-OUTAGE-001">>
      [] query = "help"             -> <<"KB-ACCOUNT-002">>
      [] query = "dark mode idea"   -> <<"KB-UI-001", "KB-FEATURE-001">>
      [] query = "invoice question" -> <<"KB-BILLING-001">>
      [] OTHER                      -> <<>>

(***************************************************************************)
(* core/agent.py                                                           *)
(***************************************************************************)

max_iterations == 10

\* The input models _rule_based_triage builds itself, named like the ids of
\* requested calls (round 0).
kb_input == <<0, 1>>
history_input == <<0, 2>>

\* ToolCallRecord.  inputs names the argument map the tool was given: the id
\* of the requested call that carried it, or the input model the rule-based
\* path built itself.  outputs is "result" or the empty map "{}".
ToolCallRecord(tool_name, inputs, outputs, success, error_message) ==
    [tool_name |-> tool_name, inputs |-> inputs, outputs |-> outputs,
     success |-> success, error_message |-> error_message]

\* An exception leaving a function.
Raise(exc) == [kind |-> "raise", exc |-> exc]
\* A value returned by a function.
Return(out) == [kind |-> "return", out |-> out]

\* _rule_based_triage starting from urgency low instead of medium.
_rule_based_triage_default_low(t) ==
    LET query_terms == Take(Split(Lower(t.subject)), 4)
        query       == Join(query_terms)
        kb_results  == Take(kb_search(query), 3)
        tool_calls  == <<ToolCallRecord("knowledge_base_search", kb_input, "result",
                                        TRUE, None),
                         ToolCallRecord("customer_history", history_input, "result",
                                        TRUE, None)>>
        detected    == detect_issue_type_from_keywords(t)
        issue_type  == IF detected = None THEN "other" ELSE detected
        text        == Lower(get_full_text(t))
        u1          == IF AnyIn({"urgent", "critical", "emergency", "down", "asap"}, text)
                       THEN "high" ELSE "low"
        u2          == IF is_enterprise(t) /\ Contains(text, "down") THEN "critical" ELSE u1
        urgency     == IF issue_type = "feature_request" THEN "low" ELSE u2
        negative_words == {"frustrated", "angry", "terrible", "worst", "unacceptable",
                           "disappointed"}
        positive_words == {"thanks", "great", "love", "amazing", "appreciate"}
        s1          == IF AnyIn(negative_words, text) THEN "negative" ELSE "neutral"
        sentiment   == IF AnyIn(positive_words, text) THEN "positive" ELSE s1
        risk_signals == detect_risk_signals(t)
        action      == determine_action(urgency, sentiment, issue_type, risk_signals, t,
                                        Len(kb_results) > 0)
        queue       == determine_specialist_queue(issue_type, urgency, t, risk_signals)
    IN  IF ~KnowledgeBaseInputValid(query)
        THEN Raise("ValidationError")
        ELSE Return([urgency                      |-> urgency,
                     issue_type                   |-> issue_type,
                     customer_sentiment           |-> sentiment,
                     customer_risk_signals        |-> risk_signals,
                     recommended_action           |-> action,
                     recommended_specialist_queue |-> queue,
                     knowledge_base_results       |-> Len(kb_results),
                     tool_calls                   |-> tool_calls,
                     confidence_score             |-> 60,
                     reasoning                    |-> "rule_based"])

\* TriageAgent._rule_based_triage.  KnowledgeBaseInput(query=...) is built
\* outside the try blocks, so its validation error leaves the function.
_rule_based_triage(t) ==
    LET query_terms == Take(Split(Lower(t.subject)), 4)
        query       == Join(query_terms)
        kb_results  == Take(kb_search(query), 3)
        tool_calls  == <<ToolCallRecord("knowledge_base_search", kb_input, "result",
                                        TRUE, None),
                         ToolCallRecord("customer_history", history_input, "result",
                                        TRUE, None)>>
        detected    == detect_issue_type_from_keywords(t)
        issue_type  == IF detected = None THEN "other" ELSE detected
        text        == Lower(get_full_text(t))
        u1          == IF AnyIn({"urgent", "critical", "emergency", "down", "asap"}, text)
                       THEN "high" ELSE "medium"
        u2          == IF is_enterprise(t) /\ Contains(text, "down") THEN "critical" ELSE u1
        urgency     == IF issue_type = "feature_request" THEN "low" ELSE u2
        negative_words == {"frustrated", "angry", "terrible", "worst", "unacceptable",
                           "disappointed"}
        positive_words == {"thanks", "great", "love", "amazing", "appreciate"}
        s1          == IF AnyIn(negative_words, text) THEN "negative" ELSE "neutral"
        sentiment   == IF AnyIn(positive_words, text) THEN "positive" ELSE s1
        risk_signals == detect_risk_signals(t)
        action      == determine_action(urgency, sentiment, issue_type, risk_signals, t,
                                        Len(kb_results) > 0)
        queue       == determine_specialist_queue(issue_type, urgency, t, risk_signals)
    IN  IF ~KnowledgeBaseInputValid(query)
        THEN Raise("ValidationError")
        ELSE Return([urgency                      |-> urgency,
                     issue_type                   |-> issue_type,
                     customer_sentiment           |-> sentiment,
                     customer_risk_signals        |-> risk_signals,
                     recommended_action           |-> action,
                     recommended_specialist_queue |-> queue,
                     knowledge_base_results       |-> Len(kb_results),
                     tool_calls                   |-> tool_calls,
                     confidence_score             |-> 60,
                     reasoning                    |-> "rule_based"])

\* _create_fallback_output starting from urgency low.
_create_fallback_output_low(t, tool_calls) ==
    [urgency                      |-> "low",
     issue_type                   |-> "other",
     customer_sentiment           |-> "neutral",
     customer_risk_signals        |-> <<>>,
     recommended_action           |-> "route_to_specialist",
     recommended_specialist_queue |-> "tier_2",
     knowledge_base_results       |-> 0,
     tool_calls                   |-> tool_calls,
     confidence_score             |-> 30,
     reasoning                    |-> "parse_fallback"]

\* TriageAgent._create_fallback_output
_create_fallback_output(t, tool_calls) ==
    [urgency                      |-> "medium",
     issue_type                   |-> "other",
     customer_sentiment           |-> "neutral",
     customer_risk_signals        |-> <<>>,
     recommended_action           |-> "route_to_specialist",
     recommended_specialist_queue |-> "tier_2",
     knowledge_base_results       |-> 0,
     tool_calls                   |-> tool_calls,
     confidence_score             |-> 30,
     reasoning                    |-> "parse_fallback"]

\* The signal loop without its membership test: every detected signal is
\* appended.
AppendMissing_unchecked(signals, detected) == signals \o detected

RECURSIVE AppendMissing(_, _)
\* for signal in detected: if signal not in signals: signals.append(signal)
AppendMissing(signals, detected) ==
    IF Len(detected) = 0 THEN signals
    ELSE AppendMissing(IF InSeq(Head(detected), signals) THEN signals
                       ELSE Append(signals, Head(detected)),
                       Tail(detected))

\* _apply_business_rules replacing the action whenever the rules disagree.
_apply_business_rules_always_replace(output, t) ==
    LET urgency_override == calculate_urgency_override(t, output.urgency)
        urgency    == IF urgency_override # None THEN urgency_override ELSE output.urgency
        signals    == AppendMissing(output.customer_risk_signals, detect_risk_signals(t))
        has_kb     == output.knowledge_base_results > 0
        new_action == determine_action(urgency, output.customer_sentiment, output.issue_type,
                                       signals, t, has_kb)
        queue      == determine_specialist_queue(output.issue_type, urgency, t, signals)
    IN  [output EXCEPT !.urgency                      = urgency,
                       !.customer_risk_signals        = signals,
                       !.recommended_action           = new_action,
                       !.recommended_specialist_queue = queue]

\* _apply_business_rules without its last step: the candidate's queue is kept.
_apply_business_rules_keep_queue(output, t) ==
    LET urgency_override == calculate_urgency_override(t, output.urgency)
        urgency    == IF urgency_override # None THEN urgency_override ELSE output.urgency
        signals    == AppendMissing(output.customer_risk_signals, detect_risk_signals(t))
        has_kb     == output.knowledge_base_results > 0
        new_action == determine_action(urgency, output.customer_sentiment, output.issue_type,
                                       signals, t, has_kb)
        action     == IF new_action # output.recommended_action
                         /\ new_action \in {"escalate_to_human", "route_to_specialist"}
                      THEN new_action ELSE output.recommended_action
    IN  [output EXCEPT !.urgency               = urgency,
                       !.customer_risk_signals = signals,
                       !.recommended_action    = action]

\* _apply_business_rules recomputing the action from the candidate's own
\* urgency and risk signals.
_apply_business_rules_stale_inputs(output, t) ==
    LET urgency_override == calculate_urgency_override(t, output.urgency)
        urgency    == IF urgency_override # None THEN urgency_override ELSE output.urgency
        signals    == AppendMissing(output.customer_risk_signals, detect_risk_signals(t))
        has_kb     == output.knowledge_base_results > 0
        new_action == determine_action(output.urgency, output.customer_sentiment,
                                       output.issue_type, output.customer_risk_signals,
                                       t, has_kb)
        action     == IF new_action # output.recommended_action
                         /\ new_action \in {"escalate_to_human", "route_to_specialist"}
                      THEN new_action ELSE output.recommended_action
        queue      == determine_specialist_queue(output.issue_type, urgency, t, signals)
    IN  [output EXCEPT !.urgency                      = urgency,
                       !.customer_risk_signals        = signals,
                       !.recommended_action           = action,
                       !.recommended_specialist_queue = queue]

\* TriageAgent._apply_business_rules
_apply_business_rules(output, t) ==
    LET urgency_override == calculate_urgency_override(t, output.urgency)
        urgency    == IF urgency_override # None THEN urgency_override ELSE output.urgency
        signals    == AppendMissing(output.customer_risk_signals, detect_risk_signals(t))
        has_kb     == output.knowledge_base_results > 0
        new_action == determine_action(urgency, output.customer_sentiment, output.issue_type,
                                       signals, t, has_kb)
        action     == IF new_action # output.recommended_action
                         /\ new_action \in {"escalate_to_human", "route_to_specialist"}
                      THEN new_action ELSE output.recommended_action
        queue      == determine_specialist_queue(output.issue_type, urgency, t, signals)
    IN  [output EXCEPT !.urgency                      = urgency,
                       !.customer_risk_signals        = signals,
                       !.recommended_action           = action,
                       !.recommended_specialist_queue = queue]

\* A key the JSON object does not carry.
Absent == "<absent>"

\* dict.get(key, default)
Get(data, key, default) == IF data[key] = Absent THEN default ELSE data[key]

\* The leading-fence clean-up of _parse_llm_response, by the shape of the
\* text around the JSON document: TRUE when json.loads then sees the bare
\* document.  A text that starts with ``` is cut at the fences and loses a
\* leading "json" tag; a text that starts with anything else is left as is,
\* so a fenced document after a line of prose is handed to json.loads whole.
FenceStripped(wrap) ==
    CASE wrap = "bare"             -> TRUE
      [] wrap = "fence"            -> TRUE
      [] wrap = "fence_json"       -> TRUE
      [] wrap = "prose_then_fence" -> FALSE

\* float(data.get("confidence_score", 0.8)) by the JSON value under the key:
\* a number (kept in hundredths), a string that is not a number (ValueError),
\* null (TypeError), or no such key (the default 0.8).
FloatOutcome(x) ==
    CASE x.json = "number" -> "ok"
      [] x.json = "absent" -> "ok"
      [] x.json = "string" -> "ValueError"
      [] x.json = "null"   -> "TypeError"

FloatValue(x) == IF x.json = "absent" THEN 80 ELSE x.v

\* A confidence field without its range constraint.
InUnitRange_unchecked(x) == TRUE

\* Field(ge=0.0, le=1.0) in hundredths
InUnitRange(x) == x >= 0 /\ x <= 100

RECURSIVE KnownSignals(_)
\* the risk-signal loop of _parse_llm_response: unknown strings are skipped
KnownSignals(signals) ==
    IF Len(signals) = 0 THEN <<>>
    ELSE IF Head(signals) \in RiskSignal
         THEN <<Head(signals)>> \o KnownSignals(Tail(signals))
         ELSE KnownSignals(Tail(signals))

\* TriageAgent._parse_llm_response.  content is None (form "none", on which
\* .strip() raises AttributeError), or a text that is not JSON, or a JSON document inside a wrapping; the document is an object
\* (data) or some other JSON value.  Only JSONDecodeError, KeyError and
\* ValueError (which pydantic's ValidationError is) are caught.
_parse_llm_response(content, t, tool_calls) ==
    IF content.form = "none" THEN Raise("AttributeError")
    ELSE IF content.form = "text" \/ ~FenceStripped(content.wrap)
         THEN Return(_create_fallback_output(t, tool_calls))
    ELSE IF content.form = "json_other" THEN Raise("AttributeError")
    ELSE LET data == content.data
             kb   == data.knowledge_base_results
         IN  IF \E i \in 1..Len(kb) : ~InUnitRange(kb[i])
             THEN Return(_create_fallback_output(t, tool_calls))
             ELSE IF Get(data, "urgency", "medium") \notin UrgencyLevel
                     \/ Get(data, "issue_type", "other") \notin IssueType
                     \/ Get(data, "customer_sentiment", "neutral") \notin CustomerSentiment
                     \/ Get(data, "recommended_action", "route_to_specialist")
                            \notin RecommendedAction
                     \/ Get(data, "recommended_specialist_queue", "none")
                            \notin SpecialistQueue
                  THEN Return(_create_fallback_output(t, tool_calls))
             ELSE IF FloatOutcome(data.confidence_score) = "TypeError"
                  THEN Raise("TypeError")
             ELSE IF FloatOutcome(data.confidence_score) = "ValueError"
                     \/ ~InUnitRange(FloatValue(data.confidence_score))
                  THEN Return(_create_fallback_output(t, tool_calls))
             ELSE Return(
                 [urgency                      |-> Get(data, "urgency", "medium"),
                  issue_type                   |-> Get(data, "issue_type", "other"),
                  customer_sentiment           |-> Get(data, "customer_sentiment", "neutral"),
                  customer_risk_signals        |-> KnownSignals(data.customer_risk_signals),
                  recommended_action           |-> Get(data, "recommended_action",
                                                       "route_to_specialist"),
                  recommended_specialist_queue |-> Get(data, "recommended_specialist_queue",
                                                       "none"),
                  knowledge_base_results       |-> Len(kb),
                  tool_calls                   |-> tool_calls,
                  confidence_score             |-> FloatValue(data.confidence_score),
                  reasoning                    |-> "llm"])

\* TriageAgent._execute_tool, by what the call is: the name is or is not
\* registered, the arguments pass or fail the tool's input model, the tool's
\* logic returns or raises.  Every failure comes back as success = False.
_execute_tool(call) ==
    IF ~has_tool(call.name) THEN [success |-> FALSE, error |-> "unknown_tool"]
    ELSE IF call.arguments # "object_valid"
         THEN [success |-> FALSE, error |-> "ValidationError"]
    ELSE IF call.logic_raises THEN [success |-> FALSE, error |-> "ToolExecutionError"]
    ELSE [success |-> TRUE, error |-> None]

(***************************************************************************)
(* The inputs: tickets as validated SupportTickets, and what the model     *)
(* service may answer                                                      *)
(***************************************************************************)

Ticket(subject, body, customer_tier) ==
    [subject |-> subject, body |-> body, customer_tier |-> customer_tier]

\* Valid tickets (subject and body of 1..500 / 1..50000 characters, the tier
\* as normalize_tier leaves it).
Tickets ==
    { Ticket("   ", "help", "pro"),
      Ticket("   ", "down 503", "enterprise"),
      Ticket("Site DOWN", "error 503", "enterprise"),
      Ticket("Site DOWN", "error 503", "pro"),
      Ticket("Help", "outage now", "enterprise"),
      Ticket("Help", "fix immediately", "pro"),
      Ticket("Qq", "would be nice", "enterprise"),
      Ticket("Qq", "would be nice", "pro"),
      Ticket("Dark mode idea", "thanks", "pro"),
      Ticket("Help", "my issue", "pro"),
      Ticket("Invoice question", "thanks", "pro"),
      Ticket("Help", "help", "unknown"),
      Ticket("Help", "angry but thanks", "pro"),
      Ticket("Help", "cancel it", "pro"),
      Ticket("Dark mode idea", "site is down", "enterprise"),
      Ticket("Help", "fix immediately", "enterprise"),
      Ticket("Help", "I will SUE you", "enterprise"),
      Ticket("Dark mode idea", "thanks", "enterprise"),
      Ticket("Dark mode idea", "angry", "pro"),
      Ticket("Dark mode idea", "or I sue", "pro") }

NoTicket == Ticket("", "", "")

\* One requested tool call of an assistant message.
ToolCall(id, name, arguments, logic_raises) ==
    [id |-> id, name |-> name, arguments |-> arguments, logic_raises |-> logic_raises]

\* At most this many tool calls are requested by one assistant message.
MaxCallsPerRound == 4

\* The tool calls one assistant message may request in round r.  arguments
\* is what json.loads makes of function.arguments: an object the input model
\* accepts or rejects, a JSON value that is no object, or no JSON at all.
RoundCalls(shape, r) ==
    CASE shape = "tools" ->
           Take(<<ToolCall(<<r, 1>>, "customer_history", "object_valid", FALSE),
                  ToolCall(<<r, 2>>, "no_such_tool", "object_valid", FALSE),
                  ToolCall(<<r, 3>>, "region_status", "object_invalid", FALSE),
                  ToolCall(<<r, 4>>, "slack_post", "object_valid", TRUE),
                  ToolCall(<<r, 5>>, "knowledge_base_search", "object_valid", FALSE)>>,
                MaxCallsPerRound)
      [] shape = "bad_json" ->
           <<ToolCall(<<r, 1>>, "knowledge_base_search", "object_valid", FALSE),
             ToolCall(<<r, 2>>, "customer_history", "not_json", FALSE)>>
      [] shape = "non_object" ->
           <<ToolCall(<<r, 1>>, "customer_history", "non_object", FALSE)>>

RoundShapes == {"tools", "bad_json", "non_object"}

\* A JSON object as the final answer.
Answer(urgency, issue_type, sentiment, action, queue, confidence, signals, kb) ==
    [urgency |-> urgency, issue_type |-> issue_type, customer_sentiment |-> sentiment,
     recommended_action |-> action, recommended_specialist_queue |-> queue,
     confidence_score |-> confidence, customer_risk_signals |-> signals,
     knowledge_base_results |-> kb]

Number(v) == [json |-> "number", v |-> v]

JsonObject(wrap, data) == [form |-> "json_object", wrap |-> wrap, data |-> data]

\* Final answers whose fields are all of the declared domains or missing.
WellFormedAnswers ==
    { JsonObject("bare", Answer(u, it, "neutral", a, "security", Number(90),
                                <<"escalation_history", "made_up_signal">>, kb)) :
        u \in UrgencyLevel \cup {Absent},
        it \in {"feature_request", "other"},
        a \in RecommendedAction \cup {Absent},
        kb \in {<<>>, <<92>>} }

BaseAnswer == Answer("low", "billing", "positive", "auto_respond", "billing", Number(90),
                     <<"churn_risk">>, <<92>>)

\* Final answers with one thing wrong, or wrapped, or not JSON at all.
OtherContents ==
    { [form |-> "none"],
      [form |-> "text"],
      [form |-> "json_other", wrap |-> "bare"],
      JsonObject("fence", BaseAnswer),
      JsonObject("fence_json", BaseAnswer),
      JsonObject("prose_then_fence", BaseAnswer),
      JsonObject("bare", [BaseAnswer EXCEPT !.urgency = "urgent"]),
      JsonObject("bare", [BaseAnswer EXCEPT !.issue_type = "question"]),
      JsonObject("bare", [BaseAnswer EXCEPT !.customer_sentiment = "angry"]),
      JsonObject("bare", [BaseAnswer EXCEPT !.recommended_action = "close_ticket"]),
      JsonObject("bare", [BaseAnswer EXCEPT !.recommended_specialist_queue = "legal"]),
      JsonObject("bare", [BaseAnswer EXCEPT !.confidence_score = Number(150)]),
      JsonObject("bare", [BaseAnswer EXCEPT !.confidence_score = Number(0 - 10)]),
      JsonObject("bare", [BaseAnswer EXCEPT !.confidence_score = [json |-> "string"]]),
      JsonObject("bare", [BaseAnswer EXCEPT !.confidence_score = [json |-> "null"]]),
      JsonObject("bare", [BaseAnswer EXCEPT !.confidence_score = [json |-> "absent"]]),
      JsonObject("bare", [BaseAnswer EXCEPT !.urgency = "urgent",
                                            !.confidence_score = [json |-> "null"]]),
      JsonObject("bare", [BaseAnswer EXCEPT !.knowledge_base_results = <<150>>]),
      JsonObject("bare", [BaseAnswer EXCEPT !.customer_sentiment = "very_negative"]) }

Contents == WellFormedAnswers \cup OtherContents

(***************************************************************************)
(* TriageAgent.triage as a state machine: one step per completion the      *)
(* model service returns (or fails to return)                              *)
(***************************************************************************)

\* No outcome yet.
NoOutcome == [kind |-> "none"]

\* response.choices[0].message of a completion: the tool calls it requests
\* and its content.
Response(tool_calls, content) == [tool_calls |-> tool_calls, content |-> content]

\* No completion received yet.
NoResponse == Response(<<>>, [form |-> "none"])

\* TriageAgent.__init__: self.client is set only when the key is configured
\* (to the injected client or a fresh one), else None.
client == IF api_key_set THEN "client" ELSE None

\* An invocation of a tool, as the audit trail should name it.
Invocation(tool_name, inputs) == [tool_name |-> tool_name, inputs |-> inputs]

\* The two direct tool executions of _rule_based_triage.
DirectInvocations ==
    <<Invocation("knowledge_base_search", kb_input),
      Invocation("customer_history", history_input)>>

\* `return self._rule_based_triage(ticket)` in triage(): its result is the
\* result of triage(), and an exception it raises leaves triage().
ReturnRuleBased(t, inv, p) ==
    LET r == _rule_based_triage(t)
    IN  /\ result' = r
        /\ pc' = IF r.kind = "return" THEN "returned" ELSE "raised"
        /\ invoked' = IF r.kind = "return" THEN inv \o DirectInvocations ELSE inv
        /\ path' = p
        /\ candidate' = NoOutcome

\* messages.append for the tool result of a call: content is the dump of
\* tool_result, the tool's output or the {"error": ...} payload.
ToolMessage(call) ==
    [role |-> "tool", tool_call_id |-> call.id,
     content |-> IF _execute_tool(call).success THEN "result" ELSE "error"]

\* The first requested call at which the loop body raises: json.loads on
\* arguments that are no JSON, or ToolCallRecord(inputs=...) on arguments
\* that are JSON but no object.  0 when every call is processed.
FirstRaising(calls) ==
    IF \E i \in 1..Len(calls) : calls[i].arguments \in {"not_json", "non_object"}
    THEN CHOOSE i \in 1..Len(calls) :
            /\ calls[i].arguments \in {"not_json", "non_object"}
            /\ \A j \in 1..(i - 1) : calls[j].arguments \notin {"not_json", "non_object"}
    ELSE 0

\* The record the loop appends for a call it processed.
RecordOf(call) ==
    LET r == _execute_tool(call)
    IN  ToolCallRecord(call.name, call.id, IF r.success THEN "result" ELSE "{}",
                       r.success, r.error)

\* The records of a round, appended last call first.
RoundRecords_reversed(done) == [i \in 1..Len(done) |-> RecordOf(done[Len(done) + 1 - i])]

\* The records the for loop appends to tool_calls_made for the calls it
\* processed, one per call in the order of assistant_message.tool_calls.
RoundRecords(done) == [i \in 1..Len(done) |-> RecordOf(done[i])]

\* The while condition with a bound of 20 rounds.
LoopContinues_20(calls) == Len(calls) > 0 /\ iteration < 20

\* `while response.choices[0].message.tool_calls and iteration < max_iterations`
\* on a response requesting calls.
LoopContinues(calls) == Len(calls) > 0 /\ iteration < max_iterations

\* triage(ticket), up to the first completion request (or to the end, when
\* there is no client).  The agent keeps nothing from one call to the next,
\* so one call per agent is followed.
triage(t) ==
    /\ pc = "idle"
    /\ ticket' = t
    /\ iteration' = 0
    /\ tool_calls_made' = <<>>
    /\ pending' = NoResponse
    /\ IF client = None
       THEN /\ ReturnRuleBased(t, <<>>, "rules")
            /\ messages' = <<>>
            /\ requests' = 0
       ELSE /\ pc' = "awaiting"
            /\ messages' = <<[role |-> "system"], [role |-> "user"]>>
            /\ requests' = 1
            /\ invoked' = <<>>
            /\ path' = "llm"
            /\ candidate' = NoOutcome
            /\ result' = NoOutcome
    /\ UNCHANGED <<api_key_set, client_injected, rin, rout, harnessVars>>

\* client.chat.completions.create raises (at the first request or a later
\* one): triage() catches it and falls back to the rules.
completion_raises ==
    /\ pc = "awaiting"
    /\ ReturnRuleBased(ticket, invoked, "rules_after_llm_error")
    /\ UNCHANGED <<api_key_set, client_injected, ticket, iteration, tool_calls_made,
                   messages, requests, pending, rin, rout, harnessVars>>

\* The completion requests tool calls and fewer than max_iterations rounds
\* have run: one pass through the while body.
tool_round(shape) ==
    /\ pc = "awaiting"
    /\ LoopContinues(RoundCalls(shape, iteration + 1))
    /\ LET calls == RoundCalls(shape, iteration + 1)
           k     == FirstRaising(calls)
           n     == IF k = 0 THEN Len(calls) ELSE k - 1
           done  == SubSeq(calls, 1, n)
           inv   == invoked \o [i \in 1..n |-> Invocation(done[i].name, done[i].id)]
       IN  /\ pending' = Response(calls, [form |-> "none"])
           /\ iteration' = iteration + 1
           /\ tool_calls_made' = tool_calls_made \o RoundRecords(done)
           /\ messages' = messages \o <<[role |-> "assistant", tool_calls |-> calls]>>
                                   \o [i \in 1..n |-> ToolMessage(done[i])]
           /\ IF k = 0
              THEN /\ requests' = requests + 1
                   /\ invoked' = inv
                   /\ UNCHANGED <<pc, path, candidate, result>>
              ELSE /\ requests' = requests
                   /\ ReturnRuleBased(ticket,
                          IF calls[k].arguments = "non_object"
                          THEN Append(inv, Invocation(calls[k].name, calls[k].id))
                          ELSE inv,
                          "rules_after_llm_error")
    /\ UNCHANGED <<api_key_set, client_injected, ticket, rin, rout, harnessVars>>

\* The loop is left (the completion requests no tool call, or it does but
\* max_iterations rounds have run): parse the content, apply the business
\* rules, return; an exception on the way falls back to the rules.
final_answer(calls, content) ==
    /\ pc = "awaiting"
    /\ ~LoopContinues(calls)
    /\ pending' = Response(calls, content)
    /\ LET parsed == _parse_llm_response(content, ticket, tool_calls_made)
       IN  IF parsed.kind = "return"
           THEN /\ candidate' = parsed
                /\ result' = Return(_apply_business_rules(parsed.out, ticket))
                /\ pc' = "returned"
                /\ path' = IF parsed.out.reasoning = "parse_fallback"
                           THEN "llm_parse_fallback" ELSE "llm"
                /\ UNCHANGED invoked
           ELSE ReturnRuleBased(ticket, invoked, "rules_after_llm_error")
    /\ UNCHANGED <<api_key_set, client_injected, ticket, iteration, tool_calls_made,
                   messages, requests, rin, rout, harnessVars>>

\* The rule-engine harness is idle while the agent runs.
NoRuleInput == [op |-> "none"]

\* No call made yet on a harness.
NoCall == [op |-> "none"]

\* ToolRegistry.__init__: an empty registry, nothing called yet.
RegistryIdle == _tools = <<>> /\ reg_out = NoCall

\* runner.main not started: no input file, nothing loaded.
RunnerIdle ==
    /\ run_pc = "idle"
    /\ input_file = <<>>
    /\ verbose = FALSE
    /\ tickets = <<>>
    /\ results = <<>>
    /\ triaged = <<>>
    /\ logged = <<>>

\* chat.main not started.
ChatIdle ==
    /\ chat_pc = "idle"
    /\ _ticket_counter = 0
    /\ commands = 0
    /\ chat_last = NoCall

\* The stores as the modules define them at import: empty logs, seeded counters.
StoreIdle ==
    /\ MOCK_POSTED_MESSAGES = <<>>
    /\ MOCK_CREATED_ISSUES = <<>>
    /\ _issue_counter = 1300
    /\ MOCK_CREATED_INCIDENTS = <<>>
    /\ _incident_counter = 3
    /\ store_out = NoCall

\* The parts outside the agent, not in use.
HarnessIdle == RegistryIdle /\ RunnerIdle /\ ChatIdle /\ StoreIdle

Init ==
    /\ api_key_set \in BOOLEAN
    /\ client_injected \in BOOLEAN
    /\ pc = "idle"
    /\ ticket = NoTicket
    /\ iteration = 0
    /\ tool_calls_made = <<>>
    /\ messages = <<>>
    /\ requests = 0
    /\ pending = NoResponse
    /\ invoked = <<>>
    /\ path = "none"
    /\ candidate = NoOutcome
    /\ result = NoOutcome
    /\ rin = NoRuleInput
    /\ rout = NoRuleInput
    /\ HarnessIdle

Next ==
    \/ \E t \in Tickets : triage(t)
    \/ completion_raises
    \/ \E shape \in RoundShapes : tool_round(shape)
    \/ \E calls \in {<<>>, RoundCalls("tools", iteration + 1)}, content \in Contents :
           final_answer(calls, content)

Spec == Init /\ [][Next]_vars

(***************************************************************************)
(* The rule engine on its own: inputs drawn at the start, one step per     *)
(* function applied                                                        *)
(***************************************************************************)

\* Tickets the rule engine is exercised on: enterprise and not, with and
\* without outage indicators, Critical keywords, Legal and churn keywords.
\* The rule engine reads the text and the tier only, and the tickets left
\* out repeat these combinations.
RuleTickets == {t \in Tickets : t.subject \in {"Site DOWN", "Help"}}

\* Risk-signal lists a candidate output may carry.
SignalLists ==
    { <<>>, <<"legal_threat">>, <<"churn_risk">>,
      <<"escalation_history", "compliance_issue">> }

\* A candidate TriageOutput, as either path may hand it to the overlay.
Candidates ==
    [urgency                      : UrgencyLevel,
     issue_type                   : IssueType,
     customer_sentiment           : CustomerSentiment,
     customer_risk_signals        : SignalLists,
     recommended_action           : RecommendedAction,
     recommended_specialist_queue : {"security"},
     knowledge_base_results       : {0, 1},
     tool_calls                   : {<<>>},
     confidence_score             : {80},
     reasoning                    : {"llm"}]

RulesInit ==
    /\ api_key_set = FALSE
    /\ client_injected = FALSE
    /\ pc = "idle"
    /\ ticket = NoTicket
    /\ iteration = 0
    /\ tool_calls_made = <<>>
    /\ messages = <<>>
    /\ requests = 0
    /\ pending = NoResponse
    /\ invoked = <<>>
    /\ path = "none"
    /\ candidate = NoOutcome
    /\ result = NoOutcome
    /\ rin \in [ticket : RuleTickets, output : Candidates]
    /\ rout = NoRuleInput
    /\ HarnessIdle

\* determine_action applied to the drawn inputs
apply_determine_action ==
    /\ rout = NoRuleInput
    /\ rout' = [op    |-> "determine_action",
                value |-> determine_action(rin.output.urgency,
                                           rin.output.customer_sentiment,
                                           rin.output.issue_type,
                                           rin.output.customer_risk_signals,
                                           rin.ticket,
                                           rin.output.knowledge_base_results > 0)]
    /\ UNCHANGED <<agentVars, rin, harnessVars>>

\* _apply_business_rules applied to the drawn candidate
apply_business_rules ==
    /\ rout = NoRuleInput
    /\ rout' = [op    |-> "_apply_business_rules",
                value |-> _apply_business_rules(rin.output, rin.ticket)]
    /\ UNCHANGED <<agentVars, rin, harnessVars>>

\* calculate_urgency_override applied to the drawn ticket and urgency
apply_calculate_urgency_override ==
    /\ rout = NoRuleInput
    /\ rout' = [op    |-> "calculate_urgency_override",
                value |-> calculate_urgency_override(rin.ticket, rin.output.urgency)]
    /\ UNCHANGED <<agentVars, rin, harnessVars>>

\* _apply_business_rules applied once more, to the output it returned
apply_business_rules_again ==
    /\ rout.op = "_apply_business_rules"
    /\ rout' = [op    |-> "_apply_business_rules again",
                first |-> rout.value,
                value |-> _apply_business_rules(rout.value, rin.ticket)]
    /\ UNCHANGED <<agentVars, rin, harnessVars>>

RulesNext ==
    \/ apply_determine_action
    \/ apply_business_rules
    \/ apply_calculate_urgency_override
    \/ apply_business_rules_again

RulesSpec == RulesInit /\ [][RulesNext]_vars

\* The agent and the rule-engine harness, not in use.
AgentIdle ==
    /\ api_key_set = FALSE
    /\ client_injected = FALSE
    /\ pc = "idle"
    /\ ticket = NoTicket
    /\ iteration = 0
    /\ tool_calls_made = <<>>
    /\ messages = <<>>
    /\ requests = 0
    /\ pending = NoResponse
    /\ invoked = <<>>
    /\ path = "none"
    /\ candidate = NoOutcome
    /\ result = NoOutcome
    /\ rin = NoRuleInput
    /\ rout = NoRuleInput

(***************************************************************************)
(* tools/base.py: ToolRegistry under any sequence of register, unregister  *)
(* and get calls                                                           *)
(***************************************************************************)

\* Names tools are registered under.
ToolNames == {"knowledge_base_search", "customer_history", "slack_post"}

\* Tool instances: two different instances may carry the same name.
Tools == [name : ToolNames, instance : {1, 2}]

\* list(self._tools.keys()): a dict keeps its keys in insertion order.
get_names(tools) == [i \in 1..Len(tools) |-> tools[i].name]

\* tool_name in self._tools
__contains__(tools, tool_name) == InSeq(tool_name, get_names(tools))

\* len(self._tools)
__len__(tools) == Len(tools)

\* del self._tools[tool_name]: the other items keep their order.
Without(tools, tool_name) ==
    LET keep == {i \in 1..Len(tools) : tools[i].name # tool_name}
        \* the position in tools of the k-th item kept
        at(k) == CHOOSE i \in keep : Cardinality({j \in keep : j <= i}) = k
    IN  [k \in 1..Cardinality(keep) |-> tools[at(k)]]

\* self._tools[tool_name]
Lookup(tools, tool_name) ==
    tools[CHOOSE i \in 1..Len(tools) : tools[i].name = tool_name]

\* How a registry call ended.
RegCall(op, arg, outcome) == [op |-> op, arg |-> arg, outcome |-> outcome]

\* register storing the tool without looking for its name first.
register_unchecked(tool) ==
    /\ _tools' = Append(_tools, tool)
    /\ reg_out' = RegCall("register", tool, Return(None))
    /\ UNCHANGED exceptRegistry

\* ToolRegistry.register
register(tool) ==
    /\ IF __contains__(_tools, tool.name)
       THEN /\ reg_out' = RegCall("register", tool, Raise("ValueError"))
            /\ UNCHANGED _tools
       ELSE /\ _tools' = Append(_tools, tool)
            /\ reg_out' = RegCall("register", tool, Return(None))
    /\ UNCHANGED exceptRegistry

\* ToolRegistry.unregister
unregister(tool_name) ==
    /\ IF ~__contains__(_tools, tool_name)
       THEN /\ reg_out' = RegCall("unregister", tool_name, Raise("KeyError"))
            /\ UNCHANGED _tools
       ELSE /\ _tools' = Without(_tools, tool_name)
            /\ reg_out' = RegCall("unregister", tool_name, Return(None))
    /\ UNCHANGED exceptRegistry

\* ToolRegistry.get
get(tool_name) ==
    /\ reg_out' = RegCall("get", tool_name,
                          IF ~__contains__(_tools, tool_name) THEN Raise("KeyError")
                          ELSE Return(Lookup(_tools, tool_name)))
    /\ UNCHANGED <<exceptRegistry, _tools>>

RegistryInit == AgentIdle /\ RegistryIdle /\ RunnerIdle /\ ChatIdle /\ StoreIdle

RegistryNext ==
    \/ \E tool \in Tools : register(tool)
    \/ \E tool_name \in ToolNames : unregister(tool_name)
    \/ \E tool_name \in ToolNames : get(tool_name)

RegistrySpec == RegistryInit /\ [][RegistryNext]_vars

(***************************************************************************)
(* runner.py: main with an input file, load_tickets_from_file and          *)
(* process_tickets, on an agent without an API key                         *)
(***************************************************************************)

\* SupportTicket validation of a ticket object of the file: subject of 1 to
\* 500 characters, body of 1 to 50000 (the other fields are given valid).
SupportTicketValid(t) ==
    /\ Len(t.subject) >= 1 /\ Len(t.subject) <= 500
    /\ Len(t.body) >= 1 /\ Len(t.body) <= 50000

\* Ticket objects an input file may hold: valid ones, one with an empty
\* subject, one whose subject is blank, one whose subject carries the
\* closing tag of a quotation.
FileTickets ==
    { Ticket("Help", "my issue", "pro"),
      Ticket("Site DOWN", "error 503", "enterprise"),
      Ticket("", "help", "pro"),
      Ticket("   ", "help", "pro"),
      Ticket("Qq [/quote]", "my issue", "pro") }

\* At most this many tickets in an input file.
MaxTickets == 3

\* The JSON arrays an input file may hold.
InputFiles ==
    UNION { [1..n -> FileTickets] : n \in 1..MaxTickets }

\* rich's markup rendering of a text (console.print of a str, Panel of a
\* str): a closing tag [/name] with no [name] opened before it raises
\* MarkupError; other bracketed text is taken as a tag or printed.
MarkupError(text) ==
    \E i \in 1..Len(text), j \in 1..Len(text) :
        /\ i + 2 < j
        /\ SubSeq(text, i, i + 1) = "[/"
        /\ SubSeq(text, j, j) = "]"
        /\ \A k \in (i + 2)..(j - 1) : SubSeq(text, k, k) \notin {"[", "]"}
        /\ ~Contains(SubSeq(text, 1, i - 1), "[" \o SubSeq(text, i + 2, j - 1) \o "]")

\* text[:n]
Prefix(text, n) == SubSeq(text, 1, IF Len(text) < n THEN Len(text) ELSE n)

\* The preview panel process_tickets prints for a ticket when verbose.
preview(t) == "[bold]" \o t.subject \o "[/bold]\n\n" \o Prefix(t.body, 200) \o "..."

\* load_tickets_from_file, called by main without a try: the list
\* comprehension validates every object, so one invalid object raises out
\* of main and nothing is triaged.
load_tickets_from_file ==
    /\ run_pc = "start"
    /\ IF \A k \in 1..Len(input_file) : SupportTicketValid(input_file[k])
       THEN /\ tickets' = input_file
            /\ run_pc' = "processing"
       ELSE /\ tickets' = tickets
            /\ run_pc' = "raised"
    /\ UNCHANGED <<input_file, verbose, results, triaged, logged, exceptRunner>>

\* One pass through the for loop of process_tickets: the preview (outside
\* the try), then agent.triage inside the try, its result appended or its
\* exception logged.  The agent has no client, so triage is the rule-based
\* path, whose result display_result renders.
process_tickets_iteration ==
    /\ run_pc = "processing"
    /\ Len(triaged) < Len(tickets)
    /\ LET i == Len(triaged) + 1
           t == tickets[i]
           r == _rule_based_triage(t)
       IN  IF verbose /\ MarkupError(preview(t))
           THEN /\ run_pc' = "raised"
                /\ UNCHANGED <<results, triaged, logged>>
           ELSE /\ triaged' = Append(triaged, i)
                /\ results' = IF r.kind = "return"
                              THEN Append(results, [ticket_id |-> i, output |-> r.out])
                              ELSE results
                /\ logged' = IF r.kind = "return" THEN logged ELSE Append(logged, i)
                /\ UNCHANGED run_pc
    /\ UNCHANGED <<input_file, verbose, tickets, exceptRunner>>

\* process_tickets returns results; main prints its summary.
process_tickets_returns ==
    /\ run_pc = "processing"
    /\ Len(triaged) = Len(tickets)
    /\ run_pc' = "done"
    /\ UNCHANGED <<input_file, verbose, tickets, results, triaged, logged, exceptRunner>>

RunnerInit ==
    /\ AgentIdle
    /\ RegistryIdle
    /\ ChatIdle
    /\ StoreIdle
    /\ run_pc = "start"
    /\ input_file \in InputFiles
    /\ verbose \in BOOLEAN
    /\ tickets = <<>>
    /\ results = <<>>
    /\ triaged = <<>>
    /\ logged = <<>>

RunnerNext ==
    \/ load_tickets_from_file
    \/ process_tickets_iteration
    \/ process_tickets_returns

RunnerSpec == RunnerInit /\ [][RunnerNext]_vars

(***************************************************************************)
(* chat.py: the main loop, one step per command read at the prompt, on an  *)
(* agent without an API key                                                *)
(***************************************************************************)

RECURSIVE Repeated(_, _)
\* s * n
Repeated(s, n) ==
    IF n = 0 THEN ""
    ELSE LET h == Repeated(s, n \div 2)
         IN  IF n % 2 = 0 THEN h \o h ELSE h \o h \o s

\* not s.strip()
Blank(s) == \A i \in 1..Len(s) : IsSpace(SubSeq(s, i, i))

\* What the user may type as a subject: a word, blanks, 501 characters.
TypedSubjects == {"Help", "   ", Repeated("x", 501)}

\* What the user may type as a body (nothing: an empty first line).
TypedBodies == {"my issue", ""}

\* What the user may type as an email.
TypedEmails == {"customer@example.com", "nomail"}

\* validate_email
EmailValid(v) == Contains(v, "@") /\ Contains(v, ".")

\* What the user may paste for the json command: no JSON, a JSON array, or
\* a ticket object.
PastedJson ==
    {[form |-> "text"], [form |-> "json_other"]}
    \cup {[form |-> "json_object", data |-> Ticket(subject, "my issue", "pro")] :
             subject \in TypedSubjects \cup {""}}

\* At most this many commands are read at the prompt.
MaxCommands == 3

\* What a command did: the ticket it built passed validation or not (or no
\* ticket was built), what it printed last, whether agent.triage ran.
ChatCall(command, input, built, printed, triage_called) ==
    [op |-> command, input |-> input, built |-> built, printed |-> printed,
     triage_called |-> triage_called]

\* process_ticket(agent, ticket): triage inside a try that catches every
\* Exception; the result is displayed or the error printed.
process_ticket(t) ==
    IF _rule_based_triage(t).kind = "return" THEN "result" ELSE "error"

\* The main loop is at the prompt and may read one more command.
AtPrompt == chat_pc = "prompt" /\ commands < MaxCommands

\* `new`: get_ticket_interactive catches every Exception, the validation
\* error of SupportTicket(...) included, prints it and returns None.
cmd_new(subject, body, email) ==
    /\ AtPrompt
    /\ commands' = commands + 1
    /\ _ticket_counter' = _ticket_counter + 1
    /\ chat_pc' = "prompt"
    /\ LET t     == Ticket(subject, body, "unknown")
           input == [subject |-> subject, body |-> body, email |-> email]
       IN  chat_last' =
             IF Blank(subject) THEN ChatCall("new", input, "none", "error", FALSE)
             ELSE IF Blank(body) THEN ChatCall("new", input, "none", "error", FALSE)
             ELSE IF ~(SupportTicketValid(t) /\ EmailValid(email))
                  THEN ChatCall("new", input, "invalid", "error", FALSE)
             ELSE ChatCall("new", input, "valid", process_ticket(t), TRUE)
    /\ UNCHANGED exceptChat

\* `quick`: get_ticket_quick catches KeyboardInterrupt only, and main
\* catches KeyboardInterrupt and EOFError only, so the validation error of
\* SupportTicket(...) leaves main.
cmd_quick(subject, body) ==
    /\ AtPrompt
    /\ commands' = commands + 1
    /\ _ticket_counter' = _ticket_counter + 1
    /\ LET t     == Ticket(subject, body, "free")
           input == [subject |-> subject, body |-> body]
       IN  IF Blank(subject) \/ Blank(body)
           THEN /\ chat_last' = ChatCall("quick", input, "none", "error", FALSE)
                /\ chat_pc' = "prompt"
           ELSE IF ~SupportTicketValid(t)
           THEN /\ chat_last' = ChatCall("quick", input, "invalid", "none", FALSE)
                /\ chat_pc' = "raised"
           ELSE /\ chat_last' = ChatCall("quick", input, "valid", process_ticket(t), TRUE)
                /\ chat_pc' = "prompt"
    /\ UNCHANGED exceptChat

\* `json`: get_ticket_json catches JSONDecodeError and every other
\* Exception, prints it and returns None.
cmd_json(doc) ==
    /\ AtPrompt
    /\ commands' = commands + 1
    /\ chat_pc' = "prompt"
    /\ chat_last' =
          IF doc.form = "text" THEN ChatCall("json", doc, "none", "error", FALSE)
          ELSE IF doc.form = "json_other" THEN ChatCall("json", doc, "invalid", "error", FALSE)
          ELSE IF ~SupportTicketValid(doc.data)
               THEN ChatCall("json", doc, "invalid", "error", FALSE)
          ELSE ChatCall("json", doc, "valid", process_ticket(doc.data), TRUE)
    /\ UNCHANGED <<_ticket_counter, exceptChat>>

\* `help`, or a word that is no command: a text is printed.
cmd_other(command) ==
    /\ AtPrompt
    /\ commands' = commands + 1
    /\ chat_pc' = "prompt"
    /\ chat_last' = ChatCall(command, command, "none", "text", FALSE)
    /\ UNCHANGED <<_ticket_counter, exceptChat>>

\* `quit`, `exit` or `q`: break.
cmd_quit(command) ==
    /\ chat_pc = "prompt"
    /\ chat_pc' = "ended"
    /\ chat_last' = ChatCall(command, command, "none", "text", FALSE)
    /\ UNCHANGED <<_ticket_counter, commands, exceptChat>>

\* End of input at the prompt: Prompt.ask raises EOFError, main breaks.
end_of_input ==
    /\ chat_pc = "prompt"
    /\ chat_pc' = "ended"
    /\ chat_last' = ChatCall("EOF", "EOF", "none", "none", FALSE)
    /\ UNCHANGED <<_ticket_counter, commands, exceptChat>>

ChatInit ==
    /\ AgentIdle
    /\ RegistryIdle
    /\ RunnerIdle
    /\ StoreIdle
    /\ chat_pc = "prompt"
    /\ _ticket_counter = 0
    /\ commands = 0
    /\ chat_last = NoCall

ChatNext ==
    \/ \E subject \in TypedSubjects, body \in TypedBodies, email \in TypedEmails :
           cmd_new(subject, body, email)
    \/ \E subject \in TypedSubjects, body \in TypedBodies : cmd_quick(subject, body)
    \/ \E doc \in PastedJson : cmd_json(doc)
    \/ \E command \in {"help", "status"} : cmd_other(command)
    \/ \E command \in {"quit", "exit", "q"} : cmd_quit(command)
    \/ end_of_input

ChatSpec == ChatInit /\ [][ChatNext]_vars

(***************************************************************************)
(* The creation tools and their module-level stores                        *)
(* (tools/slack.py, tools/jira.py, tools/pagerduty.py)                     *)
(***************************************************************************)

\* Creations per store explored.
MaxCreations == 2

\* One decimal digit as text.
Digit(d) == SubSeq("0123456789", d + 1, d + 1)

RECURSIVE str(_)
\* str(n) and f"{n}" of a non-negative int: its decimal digits.
str(n) == IF n < 10 THEN Digit(n) ELSE str(n \div 10) \o Digit(n % 10)

\* f"{n:0{width}d}" and the zero-padded strftime fields: at least width digits.
ZeroPadded(n, width) ==
    LET s == str(n)
    IN  IF Len(s) >= width THEN s ELSE Repeated("0", width - Len(s)) \o s

\* The readings datetime.now() gives during the runs explored.
Clock ==
    { [year |-> 2026, month |-> 11, day |-> 2, hour |-> 9, minute |-> 5, second |-> 0],
      [year |-> 2027, month |-> 1, day |-> 15, hour |-> 23, minute |-> 59, second |-> 58] }

\* now.strftime('%Y%m%d%H%M%S')
strftime_YmdHMS(now) ==
    ZeroPadded(now.year, 4) \o ZeroPadded(now.month, 2) \o ZeroPadded(now.day, 2)
        \o ZeroPadded(now.hour, 2) \o ZeroPadded(now.minute, 2) \o ZeroPadded(now.second, 2)

\* now.strftime("%Y-%m%d")
today(now) ==
    ZeroPadded(now.year, 4) \o "-" \o ZeroPadded(now.month, 2) \o ZeroPadded(now.day, 2)

\* The arguments the tools are run with.
SlackPostInputs == [channel : {"#incidents"}, message : {"Checkout is down"}]
JiraCreateInputs == [project : {"SUPPORT", "ENG"}, issue_type : {"Bug"}, summary : {"Login fails", Repeated("s", 256)}]
PagerDutyCreateInputs == [title : {"Checkout is down"}, urgency : {"high"}]

\* JiraCreateInput: summary has max_length 255.
JiraCreateInputValid(input) == Len(input.summary) <= 255

\* A tool run: the tool, its input, the clock reading it took, how it ended.
StoreCall(op, input, now, outcome) == [op |-> op, input |-> input, now |-> now, outcome |-> outcome]

\* The message id SlackPostTool._execute makes.
msg_id(now, posted) == "msg_" \o strftime_YmdHMS(now) \o "_" \o str(Len(posted))

\* The issue key made with the counter of the previous issue.
issue_key_stale(project, counter) == project \o "-" \o str(counter - 1)
\* The issue key JiraCreateTool._execute makes.
issue_key(project, counter) == project \o "-" \o str(counter)

\* The issue id JiraCreateTool._execute makes.
issue_id(counter) == str(10000 + counter)

\* The incident id PagerDutyCreateTool._execute makes.
incident_id(now, counter) == "P-INC-" \o today(now) \o "-" \o ZeroPadded(counter, 3)

\* SlackPostTool._execute
slack_post(input, now) ==
    /\ Len(MOCK_POSTED_MESSAGES) < MaxCreations
    /\ LET id == msg_id(now, MOCK_POSTED_MESSAGES)
       IN  /\ MOCK_POSTED_MESSAGES' =
                  Append(MOCK_POSTED_MESSAGES,
                         [id |-> id, channel |-> input.channel, message |-> input.message])
           /\ store_out' = StoreCall("slack_post", input, now,
                                     Return([success |-> TRUE, message_id |-> id,
                                             channel |-> input.channel]))
    /\ UNCHANGED <<MOCK_CREATED_ISSUES, _issue_counter, MOCK_CREATED_INCIDENTS, _incident_counter, exceptStores>>

\* JiraCreateTool: validate_input, then _execute
jira_create(input, now) ==
    /\ JiraCreateInputValid(input) => Len(MOCK_CREATED_ISSUES) < MaxCreations
    /\ IF ~JiraCreateInputValid(input)
       THEN /\ store_out' = StoreCall("jira_create", input, now, Raise("ValidationError"))
            /\ UNCHANGED <<MOCK_CREATED_ISSUES, _issue_counter>>
       ELSE LET counter == _issue_counter + 1
                key == issue_key(input.project, counter)
                id  == issue_id(counter)
            IN  /\ _issue_counter' = counter
                /\ MOCK_CREATED_ISSUES' =
                       Append(MOCK_CREATED_ISSUES,
                              [key |-> key, id |-> id, summary |-> input.summary,
                               status |-> "Open", issue_type |-> input.issue_type])
                /\ store_out' = StoreCall("jira_create", input, now,
                                          Return([success |-> TRUE, key |-> key, id |-> id]))
    /\ UNCHANGED <<MOCK_POSTED_MESSAGES, MOCK_CREATED_INCIDENTS, _incident_counter, exceptStores>>

\* PagerDutyCreateTool._execute
pagerduty_create(input, now) ==
    /\ Len(MOCK_CREATED_INCIDENTS) < MaxCreations
    /\ LET counter == _incident_counter + 1
           id == incident_id(now, counter)
       IN  /\ _incident_counter' = counter
           /\ MOCK_CREATED_INCIDENTS' =
                  Append(MOCK_CREATED_INCIDENTS,
                         [id |-> id, title |-> input.title, status |-> "triggered",
                          urgency |-> input.urgency])
           /\ store_out' = StoreCall("pagerduty_create", input, now,
                                     Return([success |-> TRUE, incident_id |-> id,
                                             status |-> "triggered"]))
    /\ UNCHANGED <<MOCK_POSTED_MESSAGES, MOCK_CREATED_ISSUES, _issue_counter, exceptStores>>

StoreInit == AgentIdle /\ RegistryIdle /\ RunnerIdle /\ ChatIdle /\ StoreIdle

StoreNext ==
    \/ \E input \in SlackPostInputs, now \in Clock : slack_post(input, now)
    \/ \E input \in JiraCreateInputs, now \in Clock : jira_create(input, now)
    \/ \E input \in PagerDutyCreateInputs, now \in Clock : pagerduty_create(input, now)

StoreSpec == StoreInit /\ [][StoreNext]_vars

TypeOK ==
    /\ pc \in {"idle", "awaiting", "returned", "raised"}
    /\ iteration \in 0..max_iterations
    /\ result.kind \in {"none", "return", "raise"}
    /\ (pc = "returned") <=> (result.kind = "return")
    /\ (pc = "raised") <=> (result.kind = "raise")

(***************************************************************************)
(* Properties                                                              *)
(***************************************************************************)

\* The lower-cased subject-plus-body text of the ticket being triaged.
TicketText == Lower(get_full_text(ticket))

\* triage() came back through the rule-based path.
ViaRules == path \in {"rules", "rules_after_llm_error"}

\* C1: for every valid ticket (a whitespace-only subject included) and every
\* behaviour of the model service, triage() returns an output and never
\* raises to its caller.
C1_TriageNeverRaises == pc # "raised"

\* C2: without a credential triage() sends no completion request and returns
\* the rule-based output; with one, when the LLM path raises anywhere,
\* triage() raises nothing and returns exactly the rule-based output.
C2_FallsBackToRuleBasedOutput ==
    /\ (~api_key_set /\ pc # "idle") =>
           /\ requests = 0
           /\ pc = "returned"
           /\ result = _rule_based_triage(ticket)
    /\ (path = "rules_after_llm_error") =>
           /\ pc = "returned"
           /\ result = _rule_based_triage(ticket)

\* C3: an enterprise ticket whose text contains "down" and "503" is, on every
\* path on which triage() returns, returned with urgency critical or high,
\* action escalate_to_human, queue enterprise_success and the signal
\* high_value_account.
C3_EnterpriseOutageEscalates ==
    (/\ pc = "returned"
     /\ is_enterprise(ticket)
     /\ Contains(TicketText, "down")
     /\ Contains(TicketText, "503"))
    => /\ result.out.urgency \in {"critical", "high"}
       /\ result.out.recommended_action = "escalate_to_human"
       /\ result.out.recommended_specialist_queue = "enterprise_success"
       /\ InSeq("high_value_account", result.out.customer_risk_signals)

\* C3 witness: such a ticket returned on the LLM path although the model
\* answered low urgency and auto_respond.
C3_Witness ==
    /\ pc = "returned"
    /\ path = "llm"
    /\ is_enterprise(ticket)
    /\ Contains(TicketText, "down")
    /\ Contains(TicketText, "503")
    /\ candidate.out.urgency = "low"
    /\ candidate.out.recommended_action = "auto_respond"
    /\ result.out.urgency = "critical"

\* C4: whatever the urgency, sentiment, issue type, tier and has_kb_results,
\* determine_action returns escalate_to_human when legal_threat is among the
\* risk signals.
C4_LegalThreatEscalates ==
    (/\ rout.op = "determine_action"
     /\ InSeq("legal_threat", rin.output.customer_risk_signals))
    => rout.value = "escalate_to_human"

\* C4 witness: a legal threat on an enterprise ticket that every later rule
\* would have routed or auto-responded.
C4_Witness ==
    /\ rout.op = "determine_action"
    /\ InSeq("legal_threat", rin.output.customer_risk_signals)
    /\ is_enterprise(rin.ticket)
    /\ rin.output.urgency = "low"
    /\ rin.output.customer_sentiment = "positive"
    /\ rin.output.issue_type = "feature_request"
    /\ rin.output.knowledge_base_results > 0
    /\ rout.value = "escalate_to_human"

\* C5: the overlay never turns an action of escalate_to_human or
\* route_to_specialist into auto_respond, also when the rule engine alone
\* computes auto_respond for the same inputs.
C5_OverlayNeverDowngrades ==
    (/\ rout.op = "_apply_business_rules"
     /\ rin.output.recommended_action \in {"escalate_to_human", "route_to_specialist"})
    => rout.value.recommended_action # "auto_respond"

\* C5 witness: the rule engine computes auto_respond for the overlaid output
\* and the candidate's route_to_specialist is kept.
C5_Witness ==
    /\ rout.op = "_apply_business_rules"
    /\ rin.output.recommended_action = "route_to_specialist"
    /\ determine_action(rout.value.urgency, rout.value.customer_sentiment,
                        rout.value.issue_type, rout.value.customer_risk_signals,
                        rin.ticket, rout.value.knowledge_base_results > 0) = "auto_respond"
    /\ rout.value.recommended_action = "route_to_specialist"

\* C6: an output of the rule-based fallback has had the overlay applied: an
\* enterprise ticket with an outage indicator is returned critical, a ticket
\* with a Critical keyword at least high, and an enterprise ticket never low.
C6_RuleBasedOutputOverlaid ==
    (pc = "returned" /\ ViaRules)
    => /\ (is_enterprise(ticket) /\ AnyIn(outage_indicators, TicketText))
              => result.out.urgency = "critical"
       /\ AnyIn(CRITICAL_KEYWORDS, TicketText)
              => result.out.urgency \in {"high", "critical"}
       /\ is_enterprise(ticket) => result.out.urgency # "low"

\* The final answer is a text json.loads rejects.
Unparseable(content) ==
    \/ content.form = "text"
    \/ content.form \in {"json_object", "json_other"} /\ ~FenceStripped(content.wrap)

\* C7 as stated: after an unparseable final answer triage() returns urgency
\* medium, issue_type other, action route_to_specialist, queue tier_2 and
\* confidence 0.3.
C7_ParseFailureFixedOutput ==
    (pc = "returned" /\ Unparseable(pending.content))
    => /\ result.out.urgency = "medium"
       /\ result.out.issue_type = "other"
       /\ result.out.recommended_action = "route_to_specialist"
       /\ result.out.recommended_specialist_queue = "tier_2"
       /\ result.out.confidence_score = 30

\* C7 as amended: after an unparseable final answer triage() returns the
\* fixed candidate as the overlay leaves it: issue_type other and confidence
\* 0.3, urgency medium unless an override raised it, action
\* route_to_specialist or escalate_to_human, queue none or enterprise_success.
C7_ParseFailureOverlaidOutput ==
    (pc = "returned" /\ Unparseable(pending.content))
    => /\ candidate.out.urgency = "medium"
       /\ candidate.out.recommended_action = "route_to_specialist"
       /\ candidate.out.recommended_specialist_queue = "tier_2"
       /\ result.out.issue_type = "other"
       /\ result.out.confidence_score = 30
       /\ result.out.urgency \in {"medium", "high", "critical"}
       /\ (result.out.urgency # "medium")
              => (is_enterprise(ticket) \/ AnyIn(CRITICAL_KEYWORDS, TicketText))
       /\ result.out.recommended_action \in {"route_to_specialist", "escalate_to_human"}
       /\ result.out.recommended_specialist_queue \in {"none", "enterprise_success"}

\* C7 witness: an unparseable answer on an enterprise outage ticket, returned
\* critical and escalated.
C7_Witness ==
    /\ pc = "returned"
    /\ Unparseable(pending.content)
    /\ result.out.urgency = "critical"
    /\ result.out.recommended_action = "escalate_to_human"
    /\ result.out.confidence_score = 30

\* C8: every returned output has its five classifications inside their
\* enumerations and its confidence inside [0,1], whatever the answer carried.
C8_OutputInDomains ==
    (pc = "returned")
    => /\ result.out.urgency \in UrgencyLevel
       /\ result.out.issue_type \in IssueType
       /\ result.out.customer_sentiment \in CustomerSentiment
       /\ result.out.recommended_action \in RecommendedAction
       /\ result.out.recommended_specialist_queue \in SpecialistQueue
       /\ result.out.confidence_score >= 0
       /\ result.out.confidence_score <= 100

\* C8 witness: an answer whose confidence is 1.5 was given and an output
\* came back.
C8_Witness ==
    /\ pc = "returned"
    /\ pending.content.form = "json_object"
    /\ pending.content.data.confidence_score = Number(150)
    /\ result.out.confidence_score = 30

\* C9: every tool invocation made during the triage() call, those of LLM
\* rounds before a fallback included, has its record in the returned
\* tool_calls.
C9_AuditTrailComplete ==
    (pc = "returned")
    => \A i \in 1..Len(invoked) :
          \E j \in 1..Len(result.out.tool_calls) :
              /\ result.out.tool_calls[j].tool_name = invoked[i].tool_name
              /\ result.out.tool_calls[j].inputs = invoked[i].inputs

\* C10: on either path the returned tool_calls has at least two entries,
\* a knowledge-base search and a customer-history lookup among them, each
\* with a non-empty tool_name and a boolean success.
C10_AtLeastTwoToolCalls ==
    (pc = "returned")
    => LET calls == result.out.tool_calls
       IN  /\ Len(calls) >= 2
           /\ \E j \in 1..Len(calls) : calls[j].tool_name = "knowledge_base_search"
           /\ \E j \in 1..Len(calls) : calls[j].tool_name = "customer_history"
           /\ \A j \in 1..Len(calls) :
                 calls[j].tool_name # "" /\ calls[j].success \in BOOLEAN

\* C11: an output returned with action route_to_specialist never has queue
\* none (queue none means that no specialist routing applies).
C11_RoutedHasQueue ==
    (pc = "returned" /\ result.out.recommended_action = "route_to_specialist")
    => result.out.recommended_specialist_queue # "none"

\* triage() is over and the LLM path had been entered.
LoopLeft == pc \in {"returned", "raised"} /\ requests > 0

\* Bounds of the loop: at most 10 rounds and 11 completion requests; while
\* the loop goes on the last response requested tool calls; the calls a
\* response requests after the 10th round are neither executed, nor
\* recorded, nor answered by a tool message.
LoopBounds ==
    /\ iteration <= 10
    /\ requests <= 11
    /\ requests <= iteration + 1
    /\ (pc = "awaiting" /\ requests > 1) => Len(pending.tool_calls) > 0
    /\ \A i \in 1..Len(invoked) : invoked[i].inputs[1] <= 10
    /\ \A i \in 1..Len(tool_calls_made) : tool_calls_made[i].inputs[1] <= 10
    /\ \A i \in 1..Len(messages) :
          messages[i].role = "tool" => messages[i].tool_call_id[1] <= 10

\* C12 as stated: the loop runs at most 10 rounds and 11 requests, never
\* executes the calls requested after the 10th round, and is left before the
\* 10th round only when a response requests no tool calls.
C12_LoopStopsOnlyOnNoToolCalls ==
    /\ LoopBounds
    /\ (LoopLeft /\ iteration < 10) => Len(pending.tool_calls) = 0

\* C12 as amended: every completion received either ends the triage() call
\* or starts the next round, within the bounds above, so the call ends after
\* at most 11 completions; the loop is left before the 10th round when a
\* response requests no tool calls or when an exception ends the LLM path (a
\* failed completion request, or requested arguments that are no JSON
\* object), and only then.
C12_LoopTerminates ==
    /\ [](/\ LoopBounds
          /\ (LoopLeft /\ iteration < 10)
                => (Len(pending.tool_calls) = 0 \/ path = "rules_after_llm_error"))
    /\ [][pc = "awaiting"
            => \/ pc' \in {"returned", "raised"}
               \/ pc' = "awaiting" /\ iteration' = iteration + 1
                                   /\ requests' = requests + 1]_vars

\* C12 witness: ten rounds ran, the eleventh response requested tool calls
\* again, and triage() returned from the LLM path without executing them.
C12_Witness ==
    /\ pc = "returned"
    /\ path \in {"llm", "llm_parse_fallback"}
    /\ iteration = 10
    /\ requests = 11
    /\ Len(pending.tool_calls) > 0
    /\ Len(tool_calls_made) = 10 * MaxCallsPerRound

RECURSIVE RequestedInRounds(_)
\* The calls requested by the assistant messages of a conversation, in order.
RequestedInRounds(msgs) ==
    IF Len(msgs) = 0 THEN <<>>
    ELSE (IF Head(msgs).role = "assistant" THEN Head(msgs).tool_calls ELSE <<>>)
         \o RequestedInRounds(Tail(msgs))

\* The LLM path ran to its end (no exception sent it to the rules).
ViaLLM == pc = "returned" /\ path \in {"llm", "llm_parse_fallback"}

\* The records are those of the calls, one each, in the same order.
RecordsFollow(records, calls) ==
    /\ Len(records) = Len(calls)
    /\ \A i \in 1..Len(calls) :
          records[i].tool_name = calls[i].name /\ records[i].inputs = calls[i].id

\* Every assistant message of the conversation is followed at once by one
\* tool message per call it requested, in the order requested, each with
\* the id of its call, and every tool message is one of these.
ToolMessagesFollow(msgs) ==
    /\ \A i \in 1..Len(msgs) :
          msgs[i].role = "assistant" =>
             /\ Len(msgs) >= i + Len(msgs[i].tool_calls)
             /\ \A j \in 1..Len(msgs[i].tool_calls) :
                   /\ msgs[i + j].role = "tool"
                   /\ msgs[i + j].tool_call_id = msgs[i].tool_calls[j].id
    /\ Cardinality({i \in 1..Len(msgs) : msgs[i].role = "tool"})
          = Len(RequestedInRounds(msgs))

\* C13 as stated: on the LLM path every call the model requested, in any
\* response, has exactly one record in the returned audit trail and exactly
\* one tool message, in the order requested within and across rounds, the
\* tool messages right after the assistant message that requested them.
C13_EveryRequestedCallRecordedInOrder ==
    ViaLLM
    => /\ RecordsFollow(result.out.tool_calls,
                        RequestedInRounds(messages) \o pending.tool_calls)
       /\ ToolMessagesFollow(Append(messages, [role |-> "assistant",
                                               tool_calls |-> pending.tool_calls]))

\* C13 as amended: the same for every call requested in a round that ran
\* (rounds 1 to 10); the calls of a response after the 10th round have no
\* record and no tool message.
C13_ExecutedCallsRecordedInOrder ==
    /\ (pc = "awaiting" \/ ViaLLM)
          => /\ RecordsFollow(tool_calls_made, RequestedInRounds(messages))
             /\ ToolMessagesFollow(messages)
    /\ ViaLLM => result.out.tool_calls = tool_calls_made

\* C13 witness: two rounds of several calls each, failing ones among them,
\* then an answer, returned from the LLM path.
C13_Witness ==
    /\ ViaLLM
    /\ iteration = 2
    /\ Len(pending.tool_calls) = 0
    /\ Len(result.out.tool_calls) = 2 * MaxCallsPerRound
    /\ result.out.tool_calls[MaxCallsPerRound + 2].inputs = <<2, 2>>
    /\ ~result.out.tool_calls[MaxCallsPerRound + 2].success

\* C14: a requested call that fails at tool level (unknown name, arguments
\* the input schema rejects, logic raising) gets a record with success
\* false, empty outputs and an error message, and a tool message with the
\* error payload; the loop goes on after it, so a round is never abandoned
\* because of such a call.
C14_ToolFailureNeverAborts ==
    /\ \A i \in 1..Len(invoked) :
          invoked[i].inputs[1] >= 1 =>
             \E j \in 1..Len(tool_calls_made) :
                 tool_calls_made[j].inputs = invoked[i].inputs
    /\ \A j \in 1..Len(tool_calls_made) :
          ~tool_calls_made[j].success =>
             /\ tool_calls_made[j].outputs = "{}"
             /\ tool_calls_made[j].error_message # None
             /\ \E m \in 1..Len(messages) :
                   /\ messages[m].role = "tool"
                   /\ messages[m].tool_call_id = tool_calls_made[j].inputs
                   /\ messages[m].content = "error"
    /\ (path = "rules_after_llm_error" /\ iteration > 0 /\ requests = iteration)
          => \E c \in 1..Len(pending.tool_calls) :
                 pending.tool_calls[c].arguments = "not_json"

\* The set of registered names.
Registered(tools) == {tools[i].name : i \in 1..Len(tools)}

\* C15: names stay unique and len is the number of registered names; a
\* register of a present name and an unregister or get of an absent name
\* fail and leave the registry as it was; a successful register adds exactly
\* its name, at the end of get_names, a successful unregister removes exactly
\* its name and keeps the order of the others, get returns the tool stored
\* under the name and changes nothing.
C15_RegistryContract ==
    /\ [](/\ \A i, j \in 1..Len(_tools) : _tools[i].name = _tools[j].name => i = j
          /\ __len__(_tools) = Cardinality(Registered(_tools)))
    /\ [][LET call == reg_out'
               name == IF call.op = "register" THEN call.arg.name ELSE call.arg
               was  == name \in Registered(_tools)
           IN  /\ call.op \in {"register", "unregister", "get"}
               /\ call.outcome.kind = "raise"
                     <=> (IF call.op = "register" THEN was ELSE ~was)
               /\ call.outcome.kind = "raise" => _tools' = _tools
               /\ (call.op = "register" /\ call.outcome.kind = "return")
                     => /\ Registered(_tools') = Registered(_tools) \cup {name}
                        /\ get_names(_tools') = Append(get_names(_tools), name)
                        /\ _tools' = Append(_tools, call.arg)
               /\ (call.op = "unregister" /\ call.outcome.kind = "return")
                     => /\ Registered(_tools') = Registered(_tools) \ {name}
                        /\ \A a, b \in 1..Len(_tools') :
                              a < b => \E c, d \in 1..Len(_tools) :
                                          c < d /\ _tools[c] = _tools'[a]
                                                /\ _tools[d] = _tools'[b]
               /\ (call.op = "get" /\ call.outcome.kind = "return")
                     => /\ _tools' = _tools
                        /\ call.outcome.out.name = name
                        /\ InSeq(call.outcome.out, _tools)]_registryVars

\* C15 witness: a second tool of a name already registered was just refused
\* while three names are registered, not in alphabetical order.
C15_Witness ==
    /\ reg_out.op = "register"
    /\ reg_out.outcome.kind = "raise"
    /\ reg_out.arg.instance = 2
    /\ get_names(_tools) = <<"slack_post", "customer_history", "knowledge_base_search">>
    /\ Lookup(_tools, reg_out.arg.name).instance = 1

\* The batch run is over: main returned or an exception left it.
RunOver == run_pc \in {"done", "raised"}

\* process_tickets was entered with the loaded tickets.
Processed == RunOver /\ Len(tickets) > 0

\* C16: process_tickets calls triage once per ticket, in input order; a
\* ticket for which triage raises is logged and the ones after it are still
\* processed; the returned list holds the outputs of exactly the tickets
\* for which triage returned, in input order.
C16_EveryTicketTriagedOnce ==
    Processed
    => /\ triaged = [k \in 1..Len(tickets) |-> k]
       /\ \A k \in 1..Len(tickets) :
             (_rule_based_triage(tickets[k]).kind = "raise") <=> InSeq(k, logged)
       /\ \A k \in 1..Len(tickets) :
             (_rule_based_triage(tickets[k]).kind = "return")
                <=> (\E m \in 1..Len(results) : results[m].ticket_id = k)
       /\ \A m \in 1..Len(results) :
             /\ results[m].output = _rule_based_triage(tickets[results[m].ticket_id]).out
             /\ \A n \in 1..Len(results) :
                   m < n => results[m].ticket_id < results[n].ticket_id

\* C17: of an input file holding several tickets, every ticket that passes
\* validation is triaged, whatever the other objects of the file are.
C17_ValidTicketsOfFileTriaged ==
    RunOver
    => \A k \in 1..Len(input_file) :
          SupportTicketValid(input_file[k])
             => \E m \in 1..Len(triaged) : tickets[triaged[m]] = input_file[k]

\* C18: when the ticket built by new, quick or json fails validation an
\* error message is printed, no triage runs and the loop is back at the
\* prompt; the loop ends only on quit, exit, q or end of input, never by an
\* exception.
C18_InvalidTicketReprompts ==
    /\ chat_pc # "raised"
    /\ (chat_last.op \in {"new", "quick", "json"} /\ chat_last.built = "invalid")
          => /\ chat_last.printed = "error"
             /\ ~chat_last.triage_called
             /\ chat_pc = "prompt"
    /\ chat_pc = "ended" => chat_last.op \in {"quit", "exit", "q", "EOF"}

\* What follows the last occurrence of the one-character text c in s.
AfterLast(s, c) ==
    LET at == {i \in 1..Len(s) : SubSeq(s, i, i) = c}
        last == CHOOSE i \in at : \A j \in at : j <= i
    IN  SubSeq(s, last + 1, Len(s))

\* log2 is log with at most one entry appended.
AppendedTo(log, log2) ==
    /\ Len(log2) \in {Len(log), Len(log) + 1}
    /\ SubSeq(log2, 1, Len(log)) = log

\* The counter values the entries of the three logs carry.
MessageCounters == [k \in 1..Len(MOCK_POSTED_MESSAGES) |-> AfterLast(MOCK_POSTED_MESSAGES[k].id, "_")]
IssueCounters == [k \in 1..Len(MOCK_CREATED_ISSUES) |-> AfterLast(MOCK_CREATED_ISSUES[k].key, "-")]
IncidentCounters == [k \in 1..Len(MOCK_CREATED_INCIDENTS) |-> AfterLast(MOCK_CREATED_INCIDENTS[k].id, "-")]

\* No value occurs twice in the sequence.
Distinct(seq) == \A i, j \in 1..Len(seq) : seq[i] = seq[j] => i = j

\* The last tool run created an entry.
Created(call) == call.op # "none" /\ call.outcome.kind = "return"

\* C19: after any sequence of slack_post, jira_create and pagerduty_create
\* runs, every step has left each log as it was or appended one entry to it, a
\* creation appends exactly one entry to its own log, the issue counter is
\* 1300 plus the number of issues created and the incident counter 3 plus the
\* number of incidents created, the k-th issue has key {project}-{1300+k}
\* and id 10000+1300+k, and within each log no two entries carry the same
\* counter value.
C19_StoresAppendOnlyCountersInStep ==
    /\ [](/\ _issue_counter = 1300 + Len(MOCK_CREATED_ISSUES)
          /\ _incident_counter = 3 + Len(MOCK_CREATED_INCIDENTS)
          /\ \A k \in 1..Len(MOCK_CREATED_ISSUES) :
                /\ IssueCounters[k] = str(1300 + k)
                /\ MOCK_CREATED_ISSUES[k].id = str(10000 + 1300 + k)
          /\ (store_out.op = "jira_create" /\ Created(store_out))
                => LET k == Len(MOCK_CREATED_ISSUES)
                   IN  /\ MOCK_CREATED_ISSUES[k].key = store_out.input.project \o "-" \o str(1300 + k)
                       /\ store_out.outcome.out.key = MOCK_CREATED_ISSUES[k].key
                       /\ store_out.outcome.out.id = str(10000 + 1300 + k)
          /\ Distinct(MessageCounters)
          /\ Distinct(IssueCounters)
          /\ Distinct(IncidentCounters)
          /\ Distinct([k \in 1..Len(MOCK_CREATED_ISSUES) |-> MOCK_CREATED_ISSUES[k].id]))
    /\ [][LET call == store_out'
               grew(log, log2) == Len(log2) = Len(log) + 1
           IN  /\ AppendedTo(MOCK_POSTED_MESSAGES, MOCK_POSTED_MESSAGES')
               /\ AppendedTo(MOCK_CREATED_ISSUES, MOCK_CREATED_ISSUES')
               /\ AppendedTo(MOCK_CREATED_INCIDENTS, MOCK_CREATED_INCIDENTS')
               /\ grew(MOCK_POSTED_MESSAGES, MOCK_POSTED_MESSAGES')
                     <=> (call.op = "slack_post" /\ Created(call))
               /\ grew(MOCK_CREATED_ISSUES, MOCK_CREATED_ISSUES')
                     <=> (call.op = "jira_create" /\ Created(call))
               /\ grew(MOCK_CREATED_INCIDENTS, MOCK_CREATED_INCIDENTS')
                     <=> (call.op = "pagerduty_create" /\ Created(call))
               /\ _issue_counter' = _issue_counter + (Len(MOCK_CREATED_ISSUES') - Len(MOCK_CREATED_ISSUES))
               /\ _incident_counter' = _incident_counter + (Len(MOCK_CREATED_INCIDENTS') - Len(MOCK_CREATED_INCIDENTS))
          ]_storeVars

\* Two issues in two projects, two incidents and two messages were created,
\* and a jira_create run was then rejected by its schema.
C19_Witness ==
    /\ Len(MOCK_POSTED_MESSAGES) = 2
    /\ Len(MOCK_CREATED_INCIDENTS) = 2
    /\ Len(MOCK_CREATED_ISSUES) = 2
    /\ MOCK_CREATED_ISSUES[1].key = "ENG-1301"
    /\ MOCK_CREATED_ISSUES[2].key = "SUPPORT-1302"
    /\ MOCK_CREATED_ISSUES[2].id = "11302"
    /\ store_out.op = "jira_create"
    /\ store_out.outcome.kind = "raise"

\* The text is made of decimal digits only.
AllDigits(s) == \A i \in 1..Len(s) : \E d \in 0..9 : SubSeq(s, i, i) = Digit(d)

\* C20: the incident id pagerduty_create returns is P-INC-, the current date
\* as 8 contiguous digits YYYYMMDD, a dash, and the incremented incident
\* counter zero-padded to 3 digits.
C20_IncidentIdIsDateAndCounter ==
    (store_out.op = "pagerduty_create" /\ Created(store_out))
        => LET id  == store_out.outcome.out.incident_id
               now == store_out.now
           IN  /\ Len(id) = 18
               /\ SubSeq(id, 1, 6) = "P-INC-"
               /\ AllDigits(SubSeq(id, 7, 14))
               /\ SubSeq(id, 7, 10) = ZeroPadded(now.year, 4)
               /\ SubSeq(id, 11, 12) = ZeroPadded(now.month, 2)
               /\ SubSeq(id, 13, 14) = ZeroPadded(now.day, 2)
               /\ SubSeq(id, 15, 15) = "-"
               /\ SubSeq(id, 16, 18) = ZeroPadded(_incident_counter, 3)

\* C21: on every path on which triage() returns, the returned queue is
\* determine_specialist_queue of the returned issue type, the returned
\* urgency, the ticket and the returned risk signals; the queue the LLM
\* proposed or the parse-failure fallback set is not what decides it, and
\* security is never returned.
C21_QueueIsRecomputed ==
    (pc = "returned")
    => /\ result.out.recommended_specialist_queue
              = determine_specialist_queue(result.out.issue_type, result.out.urgency,
                                           ticket, result.out.customer_risk_signals)
       /\ result.out.recommended_specialist_queue # "security"

\* C21 witness: the LLM proposed security with low urgency for an enterprise
\* ticket; the overlay raised the urgency and the queue returned is the one
\* recomputed from the raised urgency.
C21_Witness ==
    /\ pc = "returned"
    /\ path = "llm"
    /\ candidate.out.recommended_specialist_queue = "security"
    /\ candidate.out.urgency = "low"
    /\ result.out.urgency = "critical"
    /\ result.out.recommended_specialist_queue = "enterprise_success"

\* Enterprise tickets whose text has "down" next to each feature keyword.
DownFeatureTickets == {Ticket("Qq", kw \o " down", "enterprise") : kw \in feature_keywords}

\* C22 as stated: there is a ticket (the one being triaged, or one of the
\* catalogue) for which the enterprise-and-"down" check of the rule-based
\* fallback sets urgency critical and the final feature_request check then
\* returns low.
C22_FinalCheckOverridesCritical ==
    \E t \in {ticket} \cup Tickets \cup DownFeatureTickets :
        /\ is_enterprise(t)
        /\ Contains(Lower(get_full_text(t)), "down")
        /\ _rule_based_triage(t).kind = "return"
        /\ _rule_based_triage(t).out.issue_type = "feature_request"
        /\ _rule_based_triage(t).out.urgency = "low"

\* C22 as amended: in the rule-based fallback the feature_request check runs
\* last and unconditionally (a detected feature_request is always returned
\* low, enterprise tickets included), but it never meets the enterprise
\* critical determination: a text with "down" is detected as billing or
\* outage, never as feature_request, so an enterprise ticket with "down" is
\* always returned critical.
C22_FinalCheckNeverMeetsCritical ==
    (pc = "returned" /\ ViaRules)
    => /\ result.out.issue_type = "feature_request" => result.out.urgency = "low"
       /\ (is_enterprise(ticket) /\ Contains(TicketText, "down"))
             => /\ result.out.issue_type \in {"billing", "outage"}
                /\ result.out.urgency = "critical"

\* C22 witness: the rule-based fallback returned an enterprise ticket whose
\* text has both "down" and a feature keyword, as an outage and critical.
C22_Witness ==
    /\ pc = "returned"
    /\ ViaRules
    /\ is_enterprise(ticket)
    /\ Contains(TicketText, "down")
    /\ AnyIn(feature_keywords, TicketText)
    /\ result.out.issue_type = "outage"
    /\ result.out.urgency = "critical"

\* The outcome of the first rule of a list of <<condition, outcome>> pairs
\* whose condition holds, or the default when none does.
FirstMatch(rules, default) ==
    IF \E i \in 1..Len(rules) : rules[i][1]
    THEN rules[CHOOSE i \in 1..Len(rules) :
                   rules[i][1] /\ \A j \in 1..(i - 1) : ~rules[j][1]][2]
    ELSE default

\* The action rules in the order the claim lists them.
ActionRules(urgency, sentiment, issue_type, signals, enterprise, has_kb) ==
    << <<urgency = "critical", "escalate_to_human">>,
       <<"legal_threat" \in signals, "escalate_to_human">>,
       <<sentiment = "very_negative" /\ "churn_risk" \in signals, "escalate_to_human">>,
       <<enterprise, "route_to_specialist">>,
       <<urgency = "high", "route_to_specialist">>,
       <<sentiment \in {"negative", "very_negative"}, "route_to_specialist">>,
       <<issue_type = "feature_request" /\ has_kb, "auto_respond">>,
       <<issue_type = "billing" /\ urgency = "low" /\ has_kb, "auto_respond">>,
       <<urgency = "low" /\ sentiment \in {"positive", "neutral"} /\ has_kb, "auto_respond">> >>

\* The elements of a sequence.
Elements(seq) == {seq[i] : i \in 1..Len(seq)}

\* C23: for every urgency, sentiment, issue type, risk-signal list, tier and
\* has_kb_results, determine_action returns the outcome of the first rule
\* that matches, in the order critical, legal_threat, very_negative with
\* churn_risk, enterprise, high, negative, feature_request with KB results,
\* billing low with KB results, low positive-or-neutral with KB results, and
\* route_to_specialist when none matches.
C23_ActionIsFirstMatchingRule ==
    (rout.op = "determine_action")
    => rout.value = FirstMatch(ActionRules(rin.output.urgency,
                                           rin.output.customer_sentiment,
                                           rin.output.issue_type,
                                           Elements(rin.output.customer_risk_signals),
                                           is_enterprise(rin.ticket),
                                           rin.output.knowledge_base_results > 0),
                               "route_to_specialist")

\* C23 witness: a low-urgency billing question with KB results from a very
\* positive non-enterprise customer: the billing rule is the first to match.
C23_Witness ==
    /\ rout.op = "determine_action"
    /\ rin.output.urgency = "low"
    /\ rin.output.issue_type = "billing"
    /\ rin.output.customer_sentiment = "very_positive"
    /\ rin.output.knowledge_base_results > 0
    /\ rin.output.customer_risk_signals = <<"churn_risk">>
    /\ ~is_enterprise(rin.ticket)
    /\ rout.value = "auto_respond"

\* The urgency-override rules in the order the claim lists them.
UrgencyRules(text, enterprise, llm_urgency) ==
    << <<enterprise /\ \E kw \in {"down", "outage", "unavailable", "503", "500"} :
                           Contains(text, kw),
         "critical">>,
       <<AnyIn(CRITICAL_KEYWORDS, text) /\ llm_urgency \in {"low", "medium"}, "high">>,
       <<enterprise /\ llm_urgency = "low", "medium">> >>

Recomputed(out, output, t) ==
    determine_action(out.urgency, output.customer_sentiment, output.issue_type,
                     out.customer_risk_signals, t, output.knowledge_base_results > 0)

\* C25: after the overlay the action is the rule engine's recomputed action
\* whenever that is escalate_to_human or route_to_specialist, and the
\* candidate's own action otherwise; the recomputation is made with the
\* urgency and the risk signals the overlay has already updated.
C25_ActionReplacedOnlyUpwards ==
    (rout.op = "_apply_business_rules")
    => LET new_action == Recomputed(rout.value, rin.output, rin.ticket)
       IN  rout.value.recommended_action
               = IF new_action \in {"escalate_to_human", "route_to_specialist"}
                 THEN new_action
                 ELSE rin.output.recommended_action

\* C25 witness: the candidate says low and auto_respond, and the rule engine
\* would route it on the candidate's own urgency and signals; the overlay
\* makes the urgency critical and the action returned is escalate_to_human.
C25_Witness ==
    /\ rout.op = "_apply_business_rules"
    /\ rin.output.urgency = "low"
    /\ rin.output.recommended_action = "auto_respond"
    /\ Recomputed(rin.output, rin.output, rin.ticket) = "route_to_specialist"
    /\ rout.value.urgency = "critical"
    /\ rout.value.recommended_action = "escalate_to_human"

\* C26: the overlay only appends risk signals: the list returned is the
\* candidate's list, in its order and with the signals the rule engine cannot
\* produce, followed by the rule-detected signals that were not in it, in
\* detection order.
C26_SignalsOnlyAppended ==
    (rout.op = "_apply_business_rules")
    => LET old      == rin.output.customer_risk_signals
           detected == detect_risk_signals(rin.ticket)
           Missing(signal) == ~InSeq(signal, old)
       IN  /\ rout.value.customer_risk_signals = old \o SelectSeq(detected, Missing)
           /\ \A i \in 1..Len(old) : rout.value.customer_risk_signals[i] = old[i]

\* C26 witness: the candidate carries legal_threat, the rule engine detects
\* legal_threat and high_value_account, and the list returned is legal_threat
\* followed by high_value_account.
C26_Witness ==
    /\ rout.op = "_apply_business_rules"
    /\ rin.output.customer_risk_signals = <<"legal_threat">>
    /\ detect_risk_signals(rin.ticket) = <<"legal_threat", "high_value_account">>
    /\ rout.value.customer_risk_signals = <<"legal_threat", "high_value_account">>

\* The place of an urgency in the order low < medium < high < critical.
Rank(urgency) ==
    CASE urgency = "low"      -> 1
      [] urgency = "medium"   -> 2
      [] urgency = "high"     -> 3
      [] urgency = "critical" -> 4

\* C29: the urgency override never lowers urgency: for every ticket and
\* incoming urgency an override returned is not below the incoming urgency,
\* the urgency after the overlay is the incoming one or above it, and an
\* incoming critical comes out critical.
C29_OverrideNeverLowers ==
    /\ (rout.op = "calculate_urgency_override" /\ rout.value # None)
       => Rank(rout.value) >= Rank(rin.output.urgency)
    /\ (rout.op = "_apply_business_rules")
       => /\ Rank(rout.value.urgency) >= Rank(rin.output.urgency)
          /\ rin.output.urgency = "critical" => rout.value.urgency = "critical"

\* C29 witness: a critical candidate on a non-enterprise ticket with a
\* Critical keyword went through the overlay and is still critical.
C29_Witness ==
    /\ rout.op = "_apply_business_rules"
    /\ rin.output.urgency = "critical"
    /\ ~is_enterprise(rin.ticket)
    /\ AnyIn(CRITICAL_KEYWORDS, Lower(get_full_text(rin.ticket)))
    /\ rout.value.urgency = "critical"

\* C30: the overlay is idempotent: applied to its own result it changes none
\* of urgency, risk signals, action and queue.
C30_OverlayIdempotent ==
    (rout.op = "_apply_business_rules again")
    => /\ rout.value.urgency = rout.first.urgency
       /\ rout.value.customer_risk_signals = rout.first.customer_risk_signals
       /\ rout.value.recommended_action = rout.first.recommended_action
       /\ rout.value.recommended_specialist_queue = rout.first.recommended_specialist_queue

\* C30 witness: the first application changed all four of urgency, signals,
\* action and queue of the candidate, and the second changed nothing.
C30_Witness ==
    /\ rout.op = "_apply_business_rules again"
    /\ rout.first.urgency # rin.output.urgency
    /\ rout.first.customer_risk_signals # rin.output.customer_risk_signals
    /\ rout.first.recommended_action # rin.output.recommended_action
    /\ rout.first.recommended_specialist_queue # rin.output.recommended_specialist_queue
    /\ rout.value = rout.first

\* C27: on every path on which triage() returns, a ticket whose text has a
\* Legal keyword as a substring, whatever its case and also inside a longer
\* word, is returned with legal_threat among its risk signals and the action
\* escalate_to_human, whatever the LLM answered.
C27_LegalKeywordEscalates ==
    (pc = "returned" /\ AnyIn(LEGAL_KEYWORDS, TicketText))
    => /\ InSeq("legal_threat", result.out.customer_risk_signals)
       /\ result.out.recommended_action = "escalate_to_human"

\* C27 witness: the ticket's only Legal keyword is the "sue" inside "issue",
\* the LLM answered auto_respond without legal_threat, and the output
\* returned carries legal_threat and escalate_to_human.
C27_Witness ==
    /\ pc = "returned"
    /\ path = "llm"
    /\ ticket.body = "my issue"
    /\ {kw \in LEGAL_KEYWORDS : Contains(TicketText, kw)} = {"sue"}
    /\ candidate.out.recommended_action = "auto_respond"
    /\ ~InSeq("legal_threat", candidate.out.customer_risk_signals)
    /\ InSeq("legal_threat", result.out.customer_risk_signals)
    /\ result.out.recommended_action = "escalate_to_human"

\* C28: on the rule-based fallback path the output has action auto_respond
\* if and only if the detected issue type is feature_request, at least one
\* knowledge-base result was found, the ticket is not enterprise, no Legal
\* keyword is present and the sentiment is not negative; a billing ticket is
\* never auto-responded on this path.
C28_RuleBasedAutoRespondOnlyFeatureRequests ==
    (pc = "returned" /\ ViaRules)
    => /\ (result.out.recommended_action = "auto_respond")
             <=> /\ result.out.issue_type = "feature_request"
                 /\ result.out.knowledge_base_results >= 1
                 /\ ~is_enterprise(ticket)
                 /\ ~AnyIn(LEGAL_KEYWORDS, TicketText)
                 /\ result.out.customer_sentiment # "negative"
       /\ result.out.issue_type = "billing"
             => result.out.recommended_action # "auto_respond"

\* C28 witness: a feature request with knowledge-base results from a
\* non-enterprise customer came back auto_respond from the rule-based path.
C28_Witness ==
    /\ pc = "returned"
    /\ ViaRules
    /\ result.out.issue_type = "feature_request"
    /\ result.out.knowledge_base_results >= 1
    /\ ~is_enterprise(ticket)
    /\ result.out.urgency = "low"
    /\ result.out.recommended_action = "auto_respond"

====
